---- MODULE Spec2Model ----
(***************************************************************************)
(* Galactic War: the simulation core (crates/lib).                         *)
(*                                                                         *)
(* A Galaxy owns a map Coords -> System, a tick and the dirty marks used   *)
(* by persistence.  A System holds resources, structure levels and a list  *)
(* of pending events, and is advanced lazily to the tick of each call.     *)
(*                                                                         *)
(* Spec     : any sequence of Galaxy::get_details / build / stats calls    *)
(*            and clear_dirty_flag, over the configurations of Configs.    *)
(* SpecAdv  : System::update_to_tick alone, applied to one system in       *)
(*            arbitrary splits, next to the single-call result.            *)
(* SpecSplit: the same with a build pending on the system.                 *)
(* SpecRate : update_to_tick over whole hours, one rate per run.           *)
(* SpecUser : the Galaxy calls and create_user_system.                     *)
(* SpecPersist (FairPersist, FairWorker): the galaxy table, the            *)
(*            persistence worker, save_all and shutdown.                   *)
(* SpecStore: save_galaxy_state and load_galaxy of one galaxy.             *)
(* SpecFlush: a created galaxy, calls, save_all_dirty and load_galaxy.     *)
(* SpecCreate: create_galaxy and ensure_galaxy_loaded by two callers.      *)
(***************************************************************************)
EXTENDS Integers, Sequences, FiniteSets, TLC

(* ------------------------------ bounds --------------------------------- *)

\* largest tick a caller presents
MaxTick == 7200

\* callers present ticks that are multiples of TickStep
TickStep == 1800

\* largest start tick of SpecAdv
MaxStart == 2

\* longest run of SpecAdv, in ticks after its start tick
MaxSpan == 3700

\* largest production rate of SpecRate, in units per hour
MaxRate == 3600

\* SpecRate advances its system up to this many hours
MaxHour == 2

Ticks == {t \in 0..MaxTick : t % TickStep = 0}

(* --------------------------- value types ------------------------------- *)

StructureType == {"Colony", "AsteroidMine", "WaterHarvester", "Hatchery", "StorageDepot"}

Resources(m, c, w) == [metal |-> m, crew |-> c, water |-> w]

ResourcesDefault == Resources(0, 0, 0)

Add(a, b) == Resources(a.metal + b.metal, a.crew + b.crew, a.water + b.water)

\* usize subtraction; a negative component stands for an underflow
Sub(a, b) == Resources(a.metal - b.metal, a.crew - b.crew, a.water - b.water)

RECURSIVE powi(_, _)
powi(m, e) == IF e <= 0 THEN 1 ELSE m * powi(m, e - 1)

\* Mul<f64> with a whole-number factor: (x as f64 * k).round() = x * k
MulResources(a, k) == Resources(a.metal * k, a.crew * k, a.water * k)

MulCost(c, k) == [resources |-> MulResources(c.resources, k), ticks |-> c.ticks * k]

CostDefault == [resources |-> ResourcesDefault, ticks |-> 0]

partial_cmp(a, b) ==
    IF a.metal > b.metal /\ a.crew > b.crew /\ a.water > b.water THEN "Greater"
    ELSE IF a.metal < b.metal /\ a.crew < b.crew /\ a.water < b.water THEN "Less"
    ELSE IF a.metal = b.metal /\ a.crew = b.crew /\ a.water = b.water THEN "Equal"
    ELSE "None"

\* a plausible slip: component-wise greater-or-equal
ge_componentwise(a, b) == a.metal >= b.metal /\ a.crew >= b.crew /\ a.water >= b.water

\* a plausible slip: no affordability check at all
ge_always(a, b) == TRUE

\* `>=` as derived from partial_cmp: Greater or Equal
ge(a, b) == partial_cmp(a, b) \in {"Greater", "Equal"}

(* --------------------------- configuration ----------------------------- *)

NoneCfg == [is_some |-> FALSE, multiplier |-> 1, time |-> 0, metal |-> 0, crew |-> 0, water |-> 0]

SomeCfg(mult, t, m, c, w) ==
    [is_some |-> TRUE, multiplier |-> mult, time |-> t, metal |-> m, crew |-> c, water |-> w]

\* create_test_galaxy_config; level is the starting level, timed says
\* whether the cost section carries its `time` (it defaults to 0)
colony_config(level, timed) ==
    [starting_level |-> level,
     production |-> SomeCfg(2, 0, 0, 1, 0),
     storage |-> SomeCfg(2, 0, 200, 20, 200),
     cost |-> SomeCfg(2, IF timed THEN 1800 ELSE 0, 10, 0, 5)]

mine_config(level, timed) ==
    [starting_level |-> level,
     production |-> SomeCfg(2, 0, 2, 0, 0),
     storage |-> NoneCfg,
     cost |-> SomeCfg(2, IF timed THEN 3600 ELSE 0, 5, 1, 0)]

harvester_config(level, timed) ==
    [starting_level |-> level,
     production |-> SomeCfg(2, 0, 0, 0, 3),
     storage |-> NoneCfg,
     cost |-> SomeCfg(2, IF timed THEN 2400 ELSE 0, 8, 1, 0)]

\* a galaxy of `count` systems on a 2 x 1 grid; colony is the starting level
\* of the colony, level that of the two producers
GalaxyConfig(count, colony, level, timed, res) ==
    [system_count |-> count,
     size |-> [x |-> 1, y |-> 0],
     systems |-> [resources |-> res,
                  structures |-> [s \in {"Colony", "AsteroidMine", "WaterHarvester"} |->
                        CASE s = "Colony" -> colony_config(colony, timed)
                          [] s = "AsteroidMine" -> mine_config(level, timed)
                          [] OTHER -> harvester_config(level, timed)]]]

\* the test configuration (every structure at level 1, resources 10/3/5),
\* the same with the producers not built yet and resources that pay for
\* both of them, with every structure at level 0
\* (test_no_production_structures) and the `time` of the costs left out,
\* and at level 0 with starting resources that equal the mine's cost
Configs ==
    {GalaxyConfig(2, 1, 1, TRUE, Resources(10, 3, 5)),
     GalaxyConfig(1, 1, 0, TRUE, Resources(20, 5, 6)),
     GalaxyConfig(1, 0, 0, FALSE, Resources(10, 3, 5)),
     GalaxyConfig(1, 0, 0, TRUE, Resources(5, 1, 0))}

get_cost(sc, level) ==
    IF level = 0 \/ ~sc.cost.is_some THEN CostDefault
    ELSE MulCost([resources |-> Resources(sc.cost.metal, sc.cost.crew, sc.cost.water),
                  ticks |-> sc.cost.time],
                 powi(sc.cost.multiplier, level - 1))

StructureConfig_get_production(sc, level) ==
    IF level = 0 \/ ~sc.production.is_some THEN ResourcesDefault
    ELSE MulResources(Resources(sc.production.metal, sc.production.crew, sc.production.water),
                      powi(sc.production.multiplier, level - 1))

StructureConfig_get_storage(sc, level) ==
    IF level = 0 \/ ~sc.storage.is_some THEN ResourcesDefault
    ELSE MulResources(Resources(sc.storage.metal, sc.storage.crew, sc.storage.water),
                      powi(sc.storage.multiplier, level - 1))

get_structure_production(config, s, level) ==
    IF s \in DOMAIN config.systems.structures
    THEN StructureConfig_get_production(config.systems.structures[s], level)
    ELSE ResourcesDefault

get_structure_storage(config, s, level) ==
    IF s \in DOMAIN config.systems.structures
    THEN StructureConfig_get_storage(config.systems.structures[s], level)
    ELSE ResourcesDefault

(* ------------------------------ System --------------------------------- *)

System_new(tick, config) ==
    [current_tick |-> tick,
     events |-> <<>>,
     resources |-> config.systems.resources,
     structures |-> [s \in DOMAIN config.systems.structures |->
                        config.systems.structures[s].starting_level]]

\* Option<usize>: the structure is on the system or not
structure(sys, s) == s \in DOMAIN sys.structures

structure_level(sys, s) == IF structure(sys, s) THEN sys.structures[s] ELSE 0

RECURSIVE SumOver(_, _, _)
SumOver(S, f, zero) ==
    IF S = {} THEN zero
    ELSE LET s == CHOOSE x \in S : TRUE IN Add(f[s], SumOver(S \ {s}, f, zero))

get_production(sys, config) ==
    SumOver(DOMAIN sys.structures,
            [s \in DOMAIN sys.structures |->
                get_structure_production(config, s, sys.structures[s])],
            ResourcesDefault)

get_storage(sys, config) ==
    SumOver(DOMAIN sys.structures,
            [s \in DOMAIN sys.structures |->
                get_structure_storage(config, s, sys.structures[s])],
            ResourcesDefault)

\* a plausible slip: an event completing at the tick itself is not due yet
event_to_process_strict(sys, tick) ==
    IF Len(sys.events) > 0 THEN sys.events[1].completion < tick ELSE FALSE

event_to_process(sys, tick) ==
    IF Len(sys.events) > 0 THEN sys.events[1].completion <= tick ELSE FALSE

\* push, then a stable sort by completion: the event goes after every event
\* whose completion is not later than its own
RECURSIVE InsertSorted(_, _)
InsertSorted(evs, e) ==
    IF evs = <<>> THEN <<e>>
    ELSE IF Head(evs).completion <= e.completion
         THEN <<Head(evs)>> \o InsertSorted(Tail(evs), e)
         ELSE <<e>> \o evs

register_event(sys, e) == [sys EXCEPT !.events = InsertSorted(@, e)]

\* the unwrap of a structure that is not on the system
event_callback_panics(sys, tick, e) == e.completion <= tick /\ ~structure(sys, e.structure)

event_callback(sys, tick, e) ==
    IF e.completion > tick THEN sys
    ELSE IF structure(sys, e.structure)
         THEN [sys EXCEPT !.structures[e.structure] = @ + 1]
         ELSE sys

\* one pass of the for loop over the cloned event list
RECURSIVE process_pass(_, _, _)
process_pass(sys, tick, evs) ==
    IF evs = <<>> THEN sys
    ELSE LET e == Head(evs) IN
         process_pass(IF e.completion <= tick
                      THEN event_callback(sys, tick, e)
                      ELSE register_event(sys, e),
                      tick, Tail(evs))

RECURSIVE process_events(_, _)
process_events(sys, tick) ==
    IF event_to_process(sys, tick)
    THEN process_events(process_pass([sys EXCEPT !.events = <<>>], tick, sys.events), tick)
    ELSE sys

Min(a, b) == IF a <= b THEN a ELSE b

\* a plausible slip: rate times duration instead of counting cycle boundaries
cycles_completed_elapsed(current_tick, new_tick, production_interval) ==
    (new_tick - current_tick) \div production_interval

cycles_completed(current_tick, new_tick, production_interval) ==
    (new_tick \div production_interval) - (current_tick \div production_interval)

\* a plausible slip: the rate taken per minute instead of per hour
production_interval_minute(rate) == 60 \div rate

\* ticks between two units of a resource produced at `rate` per hour
production_interval(rate) == 3600 \div rate

\* a plausible slip: the gain is added without the storage cap
produce_unclamped(have, current_tick, new_tick, rate, cap) ==
    IF rate > 0
    THEN have + cycles_completed(current_tick, new_tick, production_interval(rate))
    ELSE have

\* one resource of update_to_tick; untouched when nothing produces it
produce(have, current_tick, new_tick, rate, cap) ==
    IF rate > 0
    THEN Min(have + cycles_completed(current_tick, new_tick, production_interval(rate)), cap)
    ELSE have

\* the division by a production interval of 0 in an advancing update_to_tick
update_to_tick_panics(sys, new_tick, config) ==
    /\ new_tick > sys.current_tick
    /\ LET production == get_production(process_events(sys, new_tick), config)
       IN \E rate \in {production.metal, production.crew, production.water} :
             rate > 0 /\ production_interval(rate) = 0

\* a plausible slip: the early return is left out
no_time_passed_never(new_tick, current_tick) == FALSE

\* the early return of update_to_tick: no time has passed, or going backwards
no_time_passed(new_tick, current_tick) == new_tick <= current_tick

update_to_tick(sys, new_tick, config) ==
    IF no_time_passed(new_tick, sys.current_tick) THEN sys
    ELSE LET drained == process_events(sys, new_tick)
             production == get_production(drained, config)
             storage == get_storage(drained, config)
             r == drained.resources
             c == sys.current_tick
         IN [drained EXCEPT
                !.resources = Resources(
                    produce(r.metal, c, new_tick, production.metal, storage.metal),
                    produce(r.crew, c, new_tick, production.crew, storage.crew),
                    produce(r.water, c, new_tick, production.water, storage.water)),
                !.current_tick = new_tick]

\* a plausible slip: the range stops short of the level
RECURSIVE RangeSum_exclusive(_)
RangeSum_exclusive(level) == IF level <= 1 THEN 0 ELSE (level - 1) + RangeSum_exclusive(level - 1)

\* (1..=level).sum()
RECURSIVE RangeSum(_)
RangeSum(level) == IF level <= 0 THEN 0 ELSE level + RangeSum(level - 1)

RECURSIVE SumLevels(_, _)
SumLevels(S, lv) ==
    IF S = {} THEN 0
    ELSE LET s == CHOOSE x \in S : TRUE IN RangeSum(lv[s]) + SumLevels(S \ {s}, lv)

\* the sum of (1..=level).sum() over the structures, after advancing
score(sys, tick, config) ==
    LET adv == update_to_tick(sys, tick, config) IN SumLevels(DOMAIN adv.structures, adv.structures)

\* a plausible slip: the event does not carry the structure it builds
Event_unnamed(completion, s) == [completion |-> completion, action |-> "Build", structure |-> "None"]

Event(completion, s) == [completion |-> completion, action |-> "Build", structure |-> s]

\* a plausible slip: the pending build is not looked at
already_building_never(sys) == FALSE

already_building(sys) == \E i \in 1..Len(sys.events) : sys.events[i].structure # "None"

\* a plausible slip: cost of the current level instead of the next one
build_cost_current_level(sys, config, s) ==
    get_cost(config.systems.structures[s], structure_level(sys, s))

\* cost of the next level of a structure that is on the system
build_cost(sys, config, s) ==
    get_cost(config.systems.structures[s], structure_level(sys, s) + 1)

\* a plausible slip: the event is registered before the affordability check
System_build_registers_first(sys, tick, config, s) ==
    LET adv == update_to_tick(sys, tick, config) IN
    IF already_building(adv)
    THEN [sys |-> adv, result |-> "Already building a structure", event |-> <<>>]
    ELSE IF structure(adv, s)
    THEN LET cost == build_cost(adv, config, s)
             event == Event(tick + cost.ticks, s)
         IN IF ge(adv.resources, cost.resources)
            THEN [sys |-> register_event([adv EXCEPT !.resources = Sub(@, cost.resources)], event),
                  result |-> "Ok", event |-> <<event>>]
            ELSE [sys |-> register_event(adv, event),
                  result |-> "Not enough resources", event |-> <<>>]
    ELSE [sys |-> adv, result |-> "Structure not found", event |-> <<>>]

\* a plausible slip: the structure is looked up before the pending build
System_build_structure_first(sys, tick, config, s) ==
    LET adv == update_to_tick(sys, tick, config) IN
    IF ~structure(adv, s)
    THEN [sys |-> adv, result |-> "Structure not found", event |-> <<>>]
    ELSE IF already_building(adv)
    THEN [sys |-> adv, result |-> "Already building a structure", event |-> <<>>]
    ELSE LET cost == build_cost(adv, config, s)
             event == Event(tick + cost.ticks, s)
         IN IF ge(adv.resources, cost.resources)
            THEN [sys |-> register_event([adv EXCEPT !.resources = Sub(@, cost.resources)], event),
                  result |-> "Ok", event |-> <<event>>]
            ELSE [sys |-> adv, result |-> "Not enough resources", event |-> <<>>]

\* System::build: the system afterwards, the result and the event returned
System_build(sys, tick, config, s) ==
    LET adv == update_to_tick(sys, tick, config) IN
    IF already_building(adv)
    THEN [sys |-> adv, result |-> "Already building a structure", event |-> <<>>]
    ELSE IF structure(adv, s)
    THEN LET cost == build_cost(adv, config, s)
             event == Event(tick + cost.ticks, s)
         IN IF ge(adv.resources, cost.resources)
            THEN [sys |-> register_event([adv EXCEPT !.resources = Sub(@, cost.resources)], event),
                  result |-> "Ok", event |-> <<event>>]
            ELSE [sys |-> adv, result |-> "Not enough resources", event |-> <<>>]
    ELSE [sys |-> adv, result |-> "Structure not found", event |-> <<>>]

(* ------------------------------ Galaxy --------------------------------- *)

VARIABLES
    config,         \* Galaxy.config
    systems,        \* Galaxy.systems : Coords -> System
    tick,           \* Galaxy.tick
    dirty_systems,  \* Galaxy.dirty_systems
    needs_persist,  \* Galaxy.needs_persist
    last,           \* the call made last: operation, tick, what it returned and,
                    \* when it got past the tick gate, the system it addressed
    base,           \* SpecAdv: the system before any advance
    stepped,        \* SpecAdv: the same system advanced in pieces
    store,          \* SpecStore: the rows of the galaxy in the database
    loaded,         \* SpecStore: what load_galaxy returned last
    galaxies,       \* AppState.galaxies : name -> galaxy, as the tick it was
                    \* last mutated at and its needs_persist flag
    database,       \* the rows of each galaxy: the tick of its galaxies row
                    \* and the galaxy tick its systems rows were written at
    lock,           \* who holds the lock on the galaxy table
    table_alive,    \* the application still owns the galaxy table
    shutdown_signal,     \* PersistenceManager.shutdown_signal
    persistence_config,  \* PersistenceManager.config
    worker,         \* run_persistence_worker: its position and locals
    manual,         \* the save_all or shutdown call in progress, or the last one
    now,            \* the clock as the worker read it last, in save intervals
    hist,           \* what happened so far: times of mutations, writes made
    in_memory,      \* SpecCreate: AppState.galaxies, a name absent or present
    in_db,          \* SpecCreate: the galaxies row of each name, if any
    callers         \* SpecCreate: the create_galaxy and ensure_galaxy_loaded
                    \* calls in progress

\* the galaxy of Spec and the systems of SpecAdv
gvars == <<config, systems, tick, dirty_systems, needs_persist, last, base, stepped,
           store, loaded>>

\* the galaxy table and the persistence coordinator of SpecPersist
pvars == <<galaxies, database, lock, table_alive, shutdown_signal, persistence_config,
           worker, manual, now, hist>>

\* the galaxy table of SpecCreate and the calls that fill it
cvars == <<in_memory, in_db, callers>>

vars == <<gvars, pvars, cvars>>

(* ------------------- galaxy table and persistence state ---------------- *)

\* most mutating calls made on one galaxy of the table
MaxBuilds == 2

\* last wake of the persistence worker, in save intervals
MaxNow == 4

\* the galaxies of the table
Names == {"a", "b"}

Free == "free"

\* a galaxy of the table, as far as persistence looks at it: every mutating
\* call presents the next tick, so the tick stands for the state of its systems
TableGalaxy(t, flag) == [tick |-> t, needs_persist |-> flag]

\* the stored galaxy: the tick of the galaxies row and the galaxy tick up to
\* which the mutations of its systems are in the systems rows
Row(t, s) == [tick |-> t, systems |-> s]

\* PersistenceConfig: coalescing off, and on with a delay of two save intervals
PersistenceConfigs ==
    {[write_coalescing |-> FALSE, coalescing_delay |-> 0],
     [write_coalescing |-> TRUE, coalescing_delay |-> 2]}

NoName == "none"

\* run_persistence_worker before its first wake
WorkerStart ==
    [pc |-> "select",
     coalescing_tracker |-> {},
     last_coalescing_check |-> 0,
     galaxy_names |-> {},
     galaxy_name |-> NoName,
     galaxy_to_save |-> TableGalaxy(0, FALSE)]

NoManual ==
    [op |-> "none", pc |-> "idle", todo |-> {}, galaxy_name |-> NoName,
     saved_count |-> 0, dirty_at_call |-> 0, result |-> "none", returned |-> "none"]

\* the galaxy whose mutations and writes are kept track of
Watched == "a"

\* nothing happened yet. With coalescing on, the window of the watched
\* galaxy is open as long as all its mutations fell within less than the
\* coalescing delay of the first one (at time first) and only the worker
\* saved it; writes counts the worker's writes of it while the window is
\* open. since_drain counts the worker's writes of it since the pending set
\* was drained last; failed is the tick of the snapshot that the worker's
\* latest failed save of it did not store
NoHist ==
    [open |-> TRUE, first |-> -1, writes |-> 0, since_drain |-> 0, failed |-> -1]

\* the window is over: nothing more is recorded about it
Closed(h) == [h EXCEPT !.open = FALSE, !.first = -1, !.writes = 0]

\* a mutation of the watched galaxy at time t, with coalescing delay D
Mutated(h, t, D) ==
    IF ~h.open THEN h
    ELSE IF h.first < 0 THEN [h EXCEPT !.first = t]
    ELSE IF t - h.first < D THEN h
    ELSE Closed(h)

\* a name that is not in the table
NotInMemory == <<>>

\* the callers of create_galaxy and ensure_galaxy_loaded
Callers == {1, 2}

\* a caller between two calls
NoCaller ==
    [op |-> "none", pc |-> "idle", galaxy_name |-> NoName,
     galaxy |-> NotInMemory, result |-> "none"]

\* AppState::new: an empty table, no call in progress
CreateIdle ==
    /\ in_memory = [g \in Names |-> NotInMemory]
    /\ in_db = [g \in Names |-> <<>>]
    /\ callers = [c \in Callers |-> NoCaller]

\* the table right after the galaxies were created: stored, clean
PersistIdle ==
    /\ galaxies = [g \in Names |-> TableGalaxy(0, FALSE)]
    /\ database = [g \in Names |-> Row(0, 0)]
    /\ lock = Free
    /\ table_alive = TRUE
    /\ shutdown_signal = FALSE
    /\ persistence_config = [write_coalescing |-> FALSE, coalescing_delay |-> 0]
    /\ worker = WorkerStart
    /\ manual = NoManual
    /\ now = 0
    /\ hist = NoHist
    /\ CreateIdle

(* ------------------------- the stored galaxy --------------------------- *)

\* no row in the galaxies table
NoRow == <<>>

\* the config_file an insert by save_galaxy_state carries
EmptyConfigFile == <<>>

\* serde_yaml::to_string of a configuration
to_yaml(cfg) == <<"yaml", cfg>>

\* serde_yaml::from_str: the empty document has none of the fields of a
\* GalaxyConfig
from_yaml(config_file) ==
    IF config_file = EmptyConfigFile THEN [ok |-> FALSE, config |-> <<>>]
    ELSE [ok |-> TRUE, config |-> config_file[2]]

\* structure_type.to_string().to_lowercase()
to_lowercase(s) ==
    CASE s = "Colony" -> "colony"
      [] s = "AsteroidMine" -> "asteroidmine"
      [] s = "WaterHarvester" -> "waterharvester"
      [] s = "Hatchery" -> "hatchery"
      [] s = "StorageDepot" -> "storagedepot"
      [] OTHER -> "none"

\* StructureType::from_str; "None" stands for Err
from_str(n) ==
    CASE n = "colony" -> "Colony"
      [] n = "asteroidmine" -> "AsteroidMine"
      [] n = "waterharvester" -> "WaterHarvester"
      [] n = "hatchery" -> "Hatchery"
      [] n = "storagedepot" -> "StorageDepot"
      [] OTHER -> "None"

\* the database: the row of the galaxy and the rows of its systems
Database(row, rows) == [galaxy |-> row, systems |-> rows]

NoDatabase == Database(NoRow, [c \in {} |-> <<>>])

NoStore == [db |-> NoDatabase, all_dirty |-> FALSE]

NotLoaded == [op |-> "none", ok |-> FALSE, tick |-> 0, systems |-> [c \in {} |-> <<>>]]

\* Database::create_galaxy
create_galaxy(db, config_file, t) ==
    [db EXCEPT !.galaxy = [config_file |-> config_file, tick |-> t]]

\* the events rows of a system: format!("{:?}", action) and the lowercase
\* structure name
RECURSIVE save_events(_)
save_events(evs) ==
    IF evs = <<>> THEN <<>>
    ELSE <<[completion_tick |-> Head(evs).completion,
            action_type |-> Head(evs).action,
            structure_type |-> to_lowercase(Head(evs).structure)]>> \o save_events(Tail(evs))

\* save_system_with_tx, the upsert of the structures and the replacement of
\* the events of one system; old is its row so far, if any
save_system(old, sys) ==
    LET names == {to_lowercase(s) : s \in DOMAIN sys.structures}
        kept == IF old = <<>> THEN {} ELSE DOMAIN old.structures
    IN [metal |-> sys.resources.metal,
        crew |-> sys.resources.crew,
        water |-> sys.resources.water,
        current_tick |-> sys.current_tick,
        structures |-> [n \in names \cup kept |->
            IF n \in names
            THEN sys.structures[CHOOSE s \in DOMAIN sys.structures : to_lowercase(s) = n]
            ELSE old.structures[n]],
        events |-> save_events(sys.events)]

\* the systems save_galaxy_state writes
systems_to_save(galaxy) ==
    IF galaxy.needs_persist
    THEN IF galaxy.dirty_systems = {} THEN DOMAIN galaxy.systems ELSE galaxy.dirty_systems
    ELSE {}

\* Database::save_galaxy_state, committed
save_galaxy_state(db, galaxy) ==
    LET row == IF db.galaxy = NoRow
               THEN [config_file |-> EmptyConfigFile, tick |-> galaxy.tick]
               ELSE [db.galaxy EXCEPT !.tick = galaxy.tick]
        written == systems_to_save(galaxy) \cap DOMAIN galaxy.systems
    IN Database(row,
                [c \in DOMAIN db.systems \cup written |->
                    IF c \in written
                    THEN save_system(IF c \in DOMAIN db.systems THEN db.systems[c] ELSE <<>>,
                                     galaxy.systems[c])
                    ELSE db.systems[c]])

\* the events of a stored system: rows whose action is not Build are dropped
RECURSIVE load_events(_)
load_events(rows) ==
    IF rows = <<>> THEN <<>>
    ELSE IF Head(rows).action_type = "Build"
         THEN <<[completion |-> Head(rows).completion_tick,
                 action |-> "Build",
                 structure |-> from_str(Head(rows).structure_type)]>> \o load_events(Tail(rows))
         ELSE load_events(Tail(rows))

\* a plausible slip: the loaded system is put at the tick of the galaxy
system_current_tick_collapsed(row, galaxy_tick) == galaxy_tick

\* the tick a loaded system starts from: its own
system_current_tick(row, galaxy_tick) == row.current_tick

\* one system of load_systems_for_galaxy, through System::from_database
load_system(row, galaxy_tick) ==
    LET kinds == {from_str(n) : n \in DOMAIN row.structures} \ {"None"}
    IN [current_tick |-> system_current_tick(row, galaxy_tick),
        events |-> load_events(row.events),
        resources |-> Resources(row.metal, row.crew, row.water),
        structures |-> [s \in kinds |->
            row.structures[CHOOSE n \in DOMAIN row.structures : from_str(n) = s]]]

\* Database::load_galaxy: None without a row, Err when the configuration
\* does not parse, else the galaxy with the stored systems
load_galaxy(db) ==
    IF db.galaxy = NoRow
    THEN [op |-> "load_galaxy", ok |-> FALSE, tick |-> 0, systems |-> [c \in {} |-> <<>>]]
    ELSE IF ~from_yaml(db.galaxy.config_file).ok
    THEN [op |-> "load_galaxy", ok |-> FALSE, tick |-> 0, systems |-> [c \in {} |-> <<>>]]
    ELSE [op |-> "load_galaxy", ok |-> TRUE, tick |-> db.galaxy.tick,
          systems |-> [c \in DOMAIN db.systems |-> load_system(db.systems[c], db.galaxy.tick)]]

\* every location of the galaxy
GalaxyCoords(cfg) == (0..cfg.size.x) \X (0..cfg.size.y)

CallCoords == (0..1) \X (0..0)

NoCoords == <<>>

\* the structure kinds callers name: the configured ones and one that is not
CallStructures == {"Colony", "AsteroidMine", "WaterHarvester", "StorageDepot"}

Call(op, t, coords, s, result, event) ==
    [op |-> op, tick |-> t, coords |-> coords, structure |-> s, result |-> result, event |-> event]

NoSystem == [current_tick |-> 0, events |-> <<>>, resources |-> ResourcesDefault,
             structures |-> [s \in {} |-> 0]]

\* Galaxy::new: system_count draws of a random location, a draw that hits an
\* occupied location is skipped
Init ==
    /\ config \in Configs
    /\ \E placed \in (SUBSET GalaxyCoords(config)) \ {{}} :
          /\ Cardinality(placed) <= config.system_count
          /\ systems = [c \in placed |-> System_new(0, config)]
    /\ tick = 0
    /\ dirty_systems = {}
    /\ needs_persist = FALSE
    /\ last = Call("new", 0, NoCoords, "None", "Ok", <<>>)
    /\ base = NoSystem
    /\ stepped = NoSystem
    /\ store = NoStore
    /\ loaded = NotLoaded
    /\ PersistIdle

\* a plausible slip: the check passes but the tick is not adopted
update_tick_stale(galaxy_tick, t) ==
    [ok |-> t >= galaxy_tick, tick |-> galaxy_tick]

\* a plausible slip: the tick is adopted before it is checked
update_tick_unchecked(galaxy_tick, t) ==
    [ok |-> t >= galaxy_tick, tick |-> t]

update_tick(galaxy_tick, t) ==
    IF t < galaxy_tick THEN [ok |-> FALSE, tick |-> galaxy_tick]
    ELSE [ok |-> TRUE, tick |-> t]

OutOfOrder == "Tick is out of order"

Panic == "panic"

\* get_details and stats mark only when the galaxy tick changed
mark_on_read(old_tick, new_tick) == new_tick # old_tick

\* a plausible slip: the read advances every system, as stats does
GetDetails_all(t, coords) ==
    LET gate == update_tick(tick, t) IN
    /\ UNCHANGED <<config, base, stepped, store, loaded>>
    /\ UNCHANGED <<pvars, cvars>>
    /\ tick' = gate.tick
    /\ IF ~gate.ok
       THEN /\ last' = Call("get_details", t, NoCoords, "None", OutOfOrder, <<>>)
            /\ UNCHANGED <<systems, dirty_systems, needs_persist>>
       ELSE IF coords \notin DOMAIN systems
       THEN /\ last' = Call("get_details", t, coords, "None", Panic, <<>>)
            /\ UNCHANGED <<systems, dirty_systems, needs_persist>>
       ELSE /\ systems' = [c \in DOMAIN systems |-> update_to_tick(systems[c], t, config)]
            /\ IF mark_on_read(tick, gate.tick)
               THEN dirty_systems' = dirty_systems \cup {coords} /\ needs_persist' = TRUE
               ELSE UNCHANGED <<dirty_systems, needs_persist>>
            /\ last' = Call("get_details", t, coords, "None", "Ok", <<>>)

\* the optional structure argument only selects which view is returned
GetDetails(t, coords) ==
    LET gate == update_tick(tick, t) IN
    /\ UNCHANGED <<config, base, stepped, store, loaded>>
    /\ UNCHANGED <<pvars, cvars>>
    /\ tick' = gate.tick
    /\ IF ~gate.ok
       THEN /\ last' = Call("get_details", t, NoCoords, "None", OutOfOrder, <<>>)
            /\ UNCHANGED <<systems, dirty_systems, needs_persist>>
       ELSE IF coords \notin DOMAIN systems
       THEN /\ last' = Call("get_details", t, coords, "None", Panic, <<>>)
            /\ UNCHANGED <<systems, dirty_systems, needs_persist>>
       ELSE /\ systems' = [systems EXCEPT ![coords] = update_to_tick(@, t, config)]
            /\ IF mark_on_read(tick, gate.tick)
               THEN dirty_systems' = dirty_systems \cup {coords} /\ needs_persist' = TRUE
               ELSE UNCHANGED <<dirty_systems, needs_persist>>
            /\ last' = Call("get_details", t, coords, "None", "Ok", <<>>)

Stats(t) ==
    LET gate == update_tick(tick, t) IN
    /\ UNCHANGED <<config, base, stepped, store, loaded>>
    /\ UNCHANGED <<pvars, cvars>>
    /\ tick' = gate.tick
    /\ IF ~gate.ok
       THEN /\ last' = Call("stats", t, NoCoords, "None", OutOfOrder, <<>>)
            /\ UNCHANGED <<systems, dirty_systems, needs_persist>>
       ELSE /\ systems' = [c \in DOMAIN systems |-> update_to_tick(systems[c], t, config)]
            /\ IF mark_on_read(tick, gate.tick)
               THEN /\ dirty_systems' = dirty_systems \cup DOMAIN systems
                    /\ needs_persist' = (needs_persist \/ DOMAIN systems # {})
               ELSE UNCHANGED <<dirty_systems, needs_persist>>
            /\ last' = Call("stats", t, NoCoords, "None", "Ok", <<>>)

Build(t, coords, s) ==
    LET gate == update_tick(tick, t) IN
    /\ UNCHANGED <<config, base, stepped, store, loaded>>
    /\ UNCHANGED <<pvars, cvars>>
    /\ tick' = gate.tick
    /\ IF ~gate.ok
       THEN /\ last' = Call("build", t, NoCoords, "None", OutOfOrder, <<>>)
            /\ UNCHANGED <<systems, dirty_systems, needs_persist>>
       ELSE IF coords \notin DOMAIN systems
       THEN /\ last' = Call("build", t, coords, s, Panic, <<>>)
            /\ UNCHANGED <<systems, dirty_systems, needs_persist>>
       ELSE LET b == System_build(systems[coords], t, config, s) IN
            /\ systems' = [systems EXCEPT ![coords] = b.sys]
            /\ IF b.result = "Ok"
               THEN dirty_systems' = dirty_systems \cup {coords} /\ needs_persist' = TRUE
               ELSE UNCHANGED <<dirty_systems, needs_persist>>
            /\ last' = Call("build", t, coords, s, b.result, b.event)

ClearDirtyFlag ==
    /\ dirty_systems' = {}
    /\ needs_persist' = FALSE
    /\ last' = Call("clear_dirty_flag", 0, NoCoords, "None", "Ok", <<>>)
    /\ UNCHANGED <<config, systems, tick, base, stepped, store, loaded>>
    /\ UNCHANGED <<pvars, cvars>>

Next ==
    \/ \E t \in Ticks, c \in CallCoords : GetDetails(t, c)
    \/ \E t \in Ticks : Stats(t)
    \/ \E t \in Ticks, c \in CallCoords, s \in CallStructures : Build(t, c, s)
    \/ ClearDirtyFlag

Spec == Init /\ [][Next]_vars

(* --------------------- systems created for users ----------------------- *)

\* Galaxy::create_user_system: a random location without a system takes a
\* new system at the tick handed in and is marked; None when the draws find
\* no free location. The galaxy tick is neither checked nor moved
CreateUserSystem(t, coords) ==
    /\ IF coords \in DOMAIN systems
       THEN /\ GalaxyCoords(config) \subseteq DOMAIN systems
            /\ last' = Call("create_user_system", t, NoCoords, "None", "None", <<>>)
            /\ UNCHANGED <<systems, dirty_systems, needs_persist>>
       ELSE /\ systems' = [c \in DOMAIN systems \cup {coords} |->
                              IF c = coords THEN System_new(t, config) ELSE systems[c]]
            /\ dirty_systems' = dirty_systems \cup {coords}
            /\ needs_persist' = TRUE
            /\ last' = Call("create_user_system", t, coords, "None", "Ok", <<>>)
    /\ UNCHANGED <<config, tick, base, stepped, store, loaded>>
    /\ UNCHANGED <<pvars, cvars>>

\* a galaxy of one system, so that a location is left for a user
InitUser == Init /\ config = GalaxyConfig(1, 0, 0, TRUE, Resources(5, 1, 0))

NextUser ==
    \/ \E t \in Ticks, c \in CallCoords : GetDetails(t, c)
    \/ \E t \in Ticks : Stats(t)
    \/ \E t \in Ticks, c \in CallCoords, s \in CallStructures : Build(t, c, s)
    \/ \E t \in Ticks, c \in CallCoords : CreateUserSystem(t, c)

SpecUser == InitUser /\ [][NextUser]_vars

(* ------------------------ update_to_tick alone ------------------------- *)

\* structure levels a stored system may carry (System::from_database)
MaxLevel == 2

\* sizes of the larger advances of SpecAdv
Jumps == {7, 600, 1800}

TestConfig == GalaxyConfig(2, 1, 1, TRUE, Resources(10, 3, 5))

InitAdv ==
    /\ config = TestConfig
    /\ \E a \in 0..MaxStart, lv \in 0..MaxLevel :
          base = [System_new(a, config) EXCEPT
                     !.structures = [s \in DOMAIN @ |-> lv]]
    /\ stepped = base
    /\ systems = [c \in {} |-> NoSystem]
    /\ tick = 0
    /\ dirty_systems = {}
    /\ needs_persist = FALSE
    /\ last = Call("new", 0, NoCoords, "None", "Ok", <<>>)
    /\ store = NoStore
    /\ loaded = NotLoaded
    /\ PersistIdle

Advance(new_tick) ==
    /\ new_tick <= base.current_tick + MaxSpan
    /\ stepped' = update_to_tick(stepped, new_tick, config)
    /\ UNCHANGED <<config, systems, tick, dirty_systems, needs_persist, last, base,
                   store, loaded>>
    /\ UNCHANGED <<pvars, cvars>>

AdvanceOne == Advance(stepped.current_tick + 1)

AdvanceJump == \E d \in Jumps : Advance(stepped.current_tick + d)

NextAdv == AdvanceOne \/ AdvanceJump

SpecAdv == InitAdv /\ [][NextAdv]_vars

(* --------------- update_to_tick with a build under way ----------------- *)

\* a system at tick 0 with one build pending, as System::build leaves it;
\* the build completes after half an hour or an hour
InitSplit ==
    /\ config = TestConfig
    /\ \E lv \in 1..MaxLevel, s \in DOMAIN TestConfig.systems.structures, e \in {1800, 3600} :
          base = [System_new(0, config) EXCEPT
                     !.structures = [x \in DOMAIN @ |-> lv],
                     !.events = <<Event(e, s)>>]
    /\ stepped = base
    /\ systems = [c \in {} |-> NoSystem]
    /\ tick = 0
    /\ dirty_systems = {}
    /\ needs_persist = FALSE
    /\ last = Call("new", 0, NoCoords, "None", "Ok", <<>>)
    /\ store = NoStore
    /\ loaded = NotLoaded
    /\ PersistIdle

SpecSplit == InitSplit /\ [][NextAdv]_vars

(* ------------------------- production rates --------------------------- *)

\* ticks of an hour
Hour == 3600

\* storage that the production of MaxHour hours does not fill
AmpleStorage == (MaxRate + 1) * Hour

\* one mine at level 1 that produces `rate` metal per hour, ample storage
RateConfig(rate) ==
    [system_count |-> 1,
     size |-> [x |-> 1, y |-> 0],
     systems |-> [resources |-> Resources(0, 0, 0),
                  structures |-> [s \in {"AsteroidMine"} |->
                     [starting_level |-> 1,
                      production |-> SomeCfg(1, 0, rate, 0, 0),
                      storage |-> SomeCfg(1, 0, AmpleStorage, 0, 0),
                      cost |-> NoneCfg]]]]

\* every rate up to MaxRate, and two rates that are more than the ticks of
\* an hour
InitRate ==
    /\ \E rate \in (1..MaxRate) \cup {MaxRate + 1, 2 * MaxRate} : config = RateConfig(rate)
    /\ \E h \in 0..(MaxHour - 1) : base = System_new(h * Hour, config)
    /\ stepped = base
    /\ systems = [c \in {} |-> NoSystem]
    /\ tick = 0
    /\ dirty_systems = {}
    /\ needs_persist = FALSE
    /\ last = Call("new", 0, NoCoords, "None", "Ok", <<>>)
    /\ store = NoStore
    /\ loaded = NotLoaded
    /\ PersistIdle

\* System::update_to_tick across one whole hour
AdvanceHour ==
    /\ last.result # Panic
    /\ stepped.current_tick < MaxHour * Hour
    /\ LET new_tick == stepped.current_tick + Hour IN
       IF update_to_tick_panics(stepped, new_tick, config)
       THEN /\ last' = Call("update_to_tick", new_tick, NoCoords, "None", Panic, <<>>)
            /\ UNCHANGED stepped
       ELSE /\ last' = Call("update_to_tick", new_tick, NoCoords, "None", "Ok", <<>>)
            /\ stepped' = update_to_tick(stepped, new_tick, config)
    /\ UNCHANGED <<config, systems, tick, dirty_systems, needs_persist, base,
                   store, loaded>>
    /\ UNCHANGED <<pvars, cvars>>

NextRate == AdvanceHour

SpecRate == InitRate /\ [][NextRate]_vars

(* ----------------- galaxy table, worker and manual saves --------------- *)

InitPersist ==
    /\ config = TestConfig
    /\ systems = [c \in {} |-> NoSystem]
    /\ tick = 0
    /\ dirty_systems = {}
    /\ needs_persist = FALSE
    /\ last = Call("new", 0, NoCoords, "None", "Ok", <<>>)
    /\ base = NoSystem
    /\ stepped = NoSystem
    /\ store = NoStore
    /\ loaded = NotLoaded
    /\ galaxies = [g \in Names |-> TableGalaxy(0, FALSE)]
    /\ database = [g \in Names |-> Row(0, 0)]
    /\ lock = Free
    /\ table_alive = TRUE
    /\ shutdown_signal = FALSE
    /\ persistence_config \in PersistenceConfigs
    /\ worker = WorkerStart
    /\ manual = NoManual
    /\ now = 0
    /\ hist = NoHist
    /\ CreateIdle

\* a caller may take the table lock
CanLock == lock = Free

\* Galaxy::clear_dirty_flag on a galaxy of the table
clear_dirty_flag(galaxy) == [galaxy EXCEPT !.needs_persist = FALSE]

\* save_galaxy_state: the galaxies row takes the tick, the systems rows are
\* written only when the galaxy handed in is flagged
save_galaxy_row(row, galaxy) ==
    Row(galaxy.tick, IF galaxy.needs_persist THEN galaxy.tick ELSE row.systems)

\* the watched galaxy takes MaxBuilds mutating calls, the other galaxy one
BuildsOn(g) == IF g = Watched THEN MaxBuilds ELSE 1

\* AppState::build_structure with a build that succeeds: under the table
\* lock, the galaxy moves to the tick of the call and is marked
BuildStructure(g) ==
    /\ table_alive
    /\ CanLock
    /\ galaxies[g].tick < BuildsOn(g)
    /\ galaxies' = [galaxies EXCEPT ![g] = TableGalaxy(@.tick + 1, TRUE)]
    /\ hist' = IF g = Watched /\ persistence_config.write_coalescing
               THEN Mutated(hist, now, persistence_config.coalescing_delay)
               ELSE hist
    /\ UNCHANGED <<database, lock, table_alive, shutdown_signal, persistence_config,
                   worker, manual, now>>
    /\ UNCHANGED <<gvars, cvars>>

\* a plausible slip: the pending set is flushed at every wake
coalescing_due_always(t, last_check, delay) == TRUE

\* a plausible slip: the delay never counts as passed
coalescing_due_never(t, last_check, delay) == FALSE

\* now.duration_since(last_coalescing_check) >= coalescing_delay
coalescing_due(t, last_check, delay) == t - last_check >= delay

\* a plausible slip: the batch ends after its first galaxy
AfterGalaxy_returns(names) == "select"

\* where the worker goes after a galaxy of the batch
AfterGalaxy(names) == IF names = {} THEN "select" ELSE "batch"

\* a plausible slip: the worker does not look at the shutdown flag
worker_exits_never(signal) == FALSE

\* the worker's check of the shutdown flag at a wake: set means break
worker_exits(signal) == signal

\* the save_interval.tick() branch of the worker's select, up to the call of
\* persist_galaxies_batch; the wake is one save interval after the last one,
\* and the clock is looked at under coalescing only
WorkerTick ==
    /\ worker.pc = "select"
    /\ now < MaxNow
    /\ now' = IF persistence_config.write_coalescing THEN now + 1 ELSE now
    /\ IF worker_exits(shutdown_signal) \/ ~table_alive
       THEN /\ worker' = [worker EXCEPT !.pc = "done"]
            /\ UNCHANGED hist
       ELSE /\ CanLock
            /\ LET dirty_galaxies == {g \in Names : galaxies[g].needs_persist}
                   tracker == worker.coalescing_tracker \cup dirty_galaxies
                   due == coalescing_due(now', worker.last_coalescing_check,
                                         persistence_config.coalescing_delay)
               IN IF persistence_config.write_coalescing
                  THEN IF due
                       THEN /\ worker' = [worker EXCEPT
                                   !.coalescing_tracker = {},
                                   !.last_coalescing_check = now',
                                   !.galaxy_names = tracker,
                                   !.pc = AfterGalaxy(tracker)]
                            /\ hist' = [hist EXCEPT !.since_drain = 0]
                       ELSE /\ worker' = [worker EXCEPT !.coalescing_tracker = tracker]
                            /\ UNCHANGED hist
                  ELSE /\ worker' = [worker EXCEPT
                              !.galaxy_names = dirty_galaxies,
                              !.pc = AfterGalaxy(dirty_galaxies)]
                       /\ hist' = [hist EXCEPT !.since_drain = 0]
    /\ UNCHANGED <<galaxies, database, lock, table_alive, shutdown_signal,
                   persistence_config, manual>>
    /\ UNCHANGED <<gvars, cvars>>

\* the sleep branch of the worker's select
WorkerSleep ==
    /\ worker.pc = "select"
    /\ worker_exits(shutdown_signal)
    /\ worker' = [worker EXCEPT !.pc = "done"]
    /\ UNCHANGED hist
    /\ UNCHANGED <<galaxies, database, lock, table_alive, shutdown_signal,
                   persistence_config, manual, now>>
    /\ UNCHANGED <<gvars, cvars>>

\* persist_galaxies_batch: the clone of the next galaxy under the lock
WorkerSnapshot(g) ==
    /\ worker.pc = "batch"
    /\ g \in worker.galaxy_names
    /\ CanLock
    /\ worker' = [worker EXCEPT !.pc = "saving",
                                !.galaxy_names = @ \ {g},
                                !.galaxy_name = g,
                                !.galaxy_to_save = galaxies[g]]
    /\ UNCHANGED hist
    /\ UNCHANGED <<galaxies, database, lock, table_alive, shutdown_signal,
                   persistence_config, manual, now>>
    /\ UNCHANGED <<gvars, cvars>>

\* a plausible slip: the flag is cleared whatever the save returned
worker_clears_always(result) == TRUE

\* the worker clears the flag after Ok only
worker_clears(result) == result = "Ok"

SaveResults == {"Ok", "Err"}

\* persist_galaxies_batch: save_galaxy_state of the clone, no lock held; the
\* clone is dropped afterwards
WorkerSave(result) ==
    /\ worker.pc = "saving"
    /\ LET g == worker.galaxy_name IN
       /\ database' = IF result = "Ok"
                      THEN [database EXCEPT ![g] = save_galaxy_row(@, worker.galaxy_to_save)]
                      ELSE database
       /\ worker' = [worker EXCEPT
              !.pc = IF worker_clears(result) THEN "saved" ELSE AfterGalaxy(worker.galaxy_names),
              !.galaxy_name = IF worker_clears(result) THEN @ ELSE NoName,
              !.galaxy_to_save = WorkerStart.galaxy_to_save]
       /\ hist' = IF g # Watched THEN hist
                  ELSE IF result = "Ok"
                  THEN [hist EXCEPT !.writes = IF hist.open /\ hist.first >= 0
                                                THEN @ + 1 ELSE @,
                                    !.since_drain = @ + 1, !.failed = -1]
                  ELSE [hist EXCEPT !.failed = worker.galaxy_to_save.tick]
    /\ UNCHANGED <<galaxies, lock, table_alive, shutdown_signal, persistence_config,
                   manual, now>>
    /\ UNCHANGED <<gvars, cvars>>

\* persist_galaxies_batch: the lock is taken again and the flag cleared
WorkerClear ==
    /\ worker.pc = "saved"
    /\ CanLock
    /\ galaxies' = [galaxies EXCEPT ![worker.galaxy_name] = clear_dirty_flag(@)]
    /\ worker' = [worker EXCEPT !.pc = AfterGalaxy(worker.galaxy_names),
                                !.galaxy_name = NoName]
    /\ UNCHANGED hist
    /\ UNCHANGED <<database, lock, table_alive, shutdown_signal, persistence_config,
                   manual, now>>
    /\ UNCHANGED <<gvars, cvars>>

DirtyCount == Cardinality({g \in Names : galaxies[g].needs_persist})

\* the call of save_all_dirty on the locked table
ManualCall(op) ==
    [op |-> op, pc |-> "iter", todo |-> Names, galaxy_name |-> NoName,
     saved_count |-> 0, dirty_at_call |-> DirtyCount, result |-> "none", returned |-> "none"]

\* AppState::save_all: the table lock is taken and kept for save_all_dirty
SaveAll ==
    /\ table_alive
    /\ manual.pc = "idle"
    /\ CanLock
    /\ lock' = "save_all"
    /\ manual' = ManualCall("save_all")
    /\ UNCHANGED hist
    /\ UNCHANGED <<galaxies, database, table_alive, shutdown_signal, persistence_config,
                   worker, now>>
    /\ UNCHANGED <<gvars, cvars>>

\* PersistenceManager::shutdown: the signal is stored first
Shutdown ==
    /\ table_alive
    /\ manual.pc = "idle"
    /\ ~shutdown_signal
    /\ shutdown_signal' = TRUE
    /\ manual' = [NoManual EXCEPT !.op = "shutdown", !.pc = "lock"]
    /\ UNCHANGED hist
    /\ UNCHANGED <<galaxies, database, lock, table_alive, persistence_config, worker, now>>
    /\ UNCHANGED <<gvars, cvars>>

\* PersistenceManager::shutdown: the table lock is taken and kept for
\* save_all_dirty under the timeout
ShutdownLock ==
    /\ manual.pc = "lock"
    /\ CanLock
    /\ lock' = "shutdown"
    /\ manual' = ManualCall("shutdown")
    /\ UNCHANGED hist
    /\ UNCHANGED <<galaxies, database, table_alive, shutdown_signal, persistence_config,
                   worker, now>>
    /\ UNCHANGED <<gvars, cvars>>

\* save_all_dirty: the loop reaches a flagged galaxy and starts its save
ManualSaveBegin(g) ==
    /\ manual.pc = "iter"
    /\ g \in manual.todo
    /\ galaxies[g].needs_persist
    /\ manual' = [manual EXCEPT !.pc = "saving", !.galaxy_name = g, !.todo = @ \ {g}]
    /\ UNCHANGED hist
    /\ UNCHANGED <<galaxies, database, lock, table_alive, shutdown_signal,
                   persistence_config, worker, now>>
    /\ UNCHANGED <<gvars, cvars>>

\* a plausible slip: shutdown hands the error of the flush to its caller
shutdown_returns_flush(flush) == IF flush = "Err" THEN "Err" ELSE "Ok"

\* shutdown logs what the flush gave and returns Ok(())
shutdown_returns(flush) == "Ok"

\* what the call returns to its caller once save_all_dirty is over
Returned(op, flush) == IF op = "shutdown" THEN shutdown_returns(flush) ELSE flush

\* a plausible slip: the loop goes on after a failed save
save_all_dirty_stops_never(result) == FALSE

\* save_all_dirty returns at the first save that fails
save_all_dirty_stops(result) == result = "Err"

\* save_all_dirty: the save of the galaxy ends; under shutdown the timeout
\* may end the whole flush instead
ManualSaveEnd(result) ==
    /\ manual.pc = "saving"
    /\ result = "Timeout" => manual.op = "shutdown"
    /\ LET g == manual.galaxy_name IN
       IF result = "Ok"
       THEN /\ database' = [database EXCEPT ![g] = save_galaxy_row(@, galaxies[g])]
            /\ galaxies' = [galaxies EXCEPT ![g] = clear_dirty_flag(@)]
            /\ manual' = [manual EXCEPT !.pc = "iter", !.saved_count = @ + 1]
            /\ hist' = IF g = Watched /\ persistence_config.write_coalescing
                       THEN Closed(hist) ELSE hist
            /\ UNCHANGED lock
       ELSE IF result = "Timeout" \/ save_all_dirty_stops(result)
       THEN /\ manual' = [manual EXCEPT !.pc = "idle", !.result = result,
                                        !.returned = Returned(manual.op, result)]
            /\ lock' = Free
            /\ UNCHANGED hist
            /\ UNCHANGED <<galaxies, database>>
       ELSE /\ manual' = [manual EXCEPT !.pc = "iter"]
            /\ UNCHANGED hist
            /\ UNCHANGED <<galaxies, database, lock>>
    /\ UNCHANGED <<table_alive, shutdown_signal, persistence_config, worker, now>>
    /\ UNCHANGED <<gvars, cvars>>

\* save_all_dirty: the loop is over and Ok(saved_count) returned; the caller
\* lets go of the lock
ManualReturn ==
    /\ manual.pc = "iter"
    /\ \A g \in manual.todo : ~galaxies[g].needs_persist
    /\ manual' = [manual EXCEPT !.pc = "idle", !.todo = {}, !.result = "Ok",
                                !.returned = Returned(manual.op, "Ok")]
    /\ lock' = Free
    /\ UNCHANGED hist
    /\ UNCHANGED <<galaxies, database, table_alive, shutdown_signal, persistence_config,
                   worker, now>>
    /\ UNCHANGED <<gvars, cvars>>

\* the application lets go of the table
AppDrop ==
    /\ table_alive
    /\ manual.pc = "idle"
    /\ table_alive' = FALSE
    /\ UNCHANGED hist
    /\ UNCHANGED <<galaxies, database, lock, shutdown_signal, persistence_config,
                   worker, manual, now>>
    /\ UNCHANGED <<gvars, cvars>>

NextPersist ==
    \/ \E g \in Names : BuildStructure(g)
    \/ WorkerTick
    \/ WorkerSleep
    \/ \E g \in Names : WorkerSnapshot(g)
    \/ \E r \in SaveResults : WorkerSave(r)
    \/ WorkerClear
    \/ SaveAll
    \/ Shutdown
    \/ ShutdownLock
    \/ \E g \in Names : ManualSaveBegin(g)
    \/ \E r \in SaveResults \cup {"Timeout"} : ManualSaveEnd(r)
    \/ ManualReturn
    \/ AppDrop

SpecPersist == InitPersist /\ [][NextPersist]_vars

\* the steps of a save_all or shutdown call once it was made: the lock is
\* free for shutdown to take, a save ends or the timeout of shutdown does
ManualProgress ==
    \/ ShutdownLock
    \/ \E g \in Names : ManualSaveBegin(g)
    \/ \E r \in SaveResults \cup {"Timeout"} : ManualSaveEnd(r)
    \/ ManualReturn

FairPersist == SpecPersist /\ WF_vars(ManualProgress)

\* the steps of the worker: a wake of either branch of its select, and the
\* steps of a batch
WorkerProgress ==
    \/ WorkerTick
    \/ WorkerSleep
    \/ \E g \in Names : WorkerSnapshot(g)
    \/ \E r \in SaveResults : WorkerSave(r)
    \/ WorkerClear

\* the worker is scheduled fairly: it gets the table lock if the lock is
\* free again and again, and whoever holds the lock gives it back
FairWorker == SpecPersist /\ SF_vars(WorkerProgress) /\ WF_vars(ManualProgress)

(* ---------------------- save and load of a galaxy ---------------------- *)

\* two systems, the colony built and resources that pay for a mine
StoreConfig == GalaxyConfig(2, 1, 0, TRUE, Resources(20, 5, 6))

\* systems as the galaxy may hold them: new at tick 500 or 800, with a
\* build of a mine pending, with that build completed, and one of higher
\* levels with the build pending
StoredSystems ==
    LET building == System_build(System_new(500, StoreConfig), 800, StoreConfig, "AsteroidMine").sys
    IN {System_new(500, StoreConfig),
        System_new(800, StoreConfig),
        building,
        update_to_tick(building, 5000, StoreConfig),
        [building EXCEPT !.structures =
            [s \in DOMAIN @ |-> CASE s = "Colony" -> 2 [] s = "AsteroidMine" -> 3 [] OTHER -> 0]]}

\* the galaxy as save_galaxy_state is handed it
ThisGalaxy ==
    [config |-> config, systems |-> systems, tick |-> tick,
     dirty_systems |-> dirty_systems, needs_persist |-> needs_persist]

\* a galaxy at tick 5000 whose systems are at ticks of their own;
\* its row is in the database (create_galaxy with the configuration) or is
\* not (the insert of create_galaxy failed or was never made)
InitStore ==
    /\ config = StoreConfig
    /\ \E placed \in (SUBSET GalaxyCoords(config)) \ {{}} :
          systems \in [placed -> StoredSystems]
    /\ tick = 5000
    /\ dirty_systems = {}
    /\ needs_persist = FALSE
    /\ last = Call("new", 0, NoCoords, "None", "Ok", <<>>)
    /\ base = NoSystem
    /\ stepped = NoSystem
    /\ store \in {[db |-> db, all_dirty |-> FALSE] :
                    db \in {NoDatabase, create_galaxy(NoDatabase, to_yaml(config), 0)}}
    /\ loaded = NotLoaded
    /\ PersistIdle

\* Galaxy::mark_system_dirty
MarkSystemDirty(coords) ==
    /\ dirty_systems' = dirty_systems \cup {coords}
    /\ needs_persist' = TRUE
    /\ UNCHANGED <<config, systems, tick, last, base, stepped, store, loaded>>
    /\ UNCHANGED <<pvars, cvars>>

\* Galaxy::mark_all_dirty
MarkAllDirty ==
    /\ dirty_systems' = dirty_systems \cup DOMAIN systems
    /\ needs_persist' = TRUE
    /\ UNCHANGED <<config, systems, tick, last, base, stepped, store, loaded>>
    /\ UNCHANGED <<pvars, cvars>>

\* Database::save_galaxy_state of the galaxy; all_dirty keeps whether every
\* system of it was marked
SaveGalaxyState ==
    /\ store' = [db |-> save_galaxy_state(store.db, ThisGalaxy),
                 all_dirty |-> needs_persist /\ dirty_systems = DOMAIN systems]
    /\ loaded' = NotLoaded
    /\ UNCHANGED <<config, systems, tick, dirty_systems, needs_persist, last, base, stepped>>
    /\ UNCHANGED <<pvars, cvars>>

\* Database::load_galaxy by the name of the galaxy
LoadGalaxy ==
    /\ loaded' = load_galaxy(store.db)
    /\ UNCHANGED <<config, systems, tick, dirty_systems, needs_persist, last, base, stepped,
                   store>>
    /\ UNCHANGED <<pvars, cvars>>

\* ticks at which the score of a system is asked for
ScoreTicks == {800, 4400}

\* System::score of a system of the galaxy: the system is advanced, the
\* score returned; the rows stored before no longer tell the galaxy
Score(coords, t) ==
    /\ coords \in DOMAIN systems
    /\ systems' = [systems EXCEPT ![coords] = update_to_tick(@, t, config)]
    /\ last' = Call("score", t, coords, "None", score(systems[coords], t, config), <<>>)
    /\ store' = [store EXCEPT !.all_dirty = FALSE]
    /\ loaded' = NotLoaded
    /\ UNCHANGED <<config, tick, dirty_systems, needs_persist, base, stepped>>
    /\ UNCHANGED <<pvars, cvars>>

NextStore ==
    \/ \E c \in CallCoords, t \in ScoreTicks : Score(c, t)
    \/ \E c \in CallCoords : MarkSystemDirty(c)
    \/ MarkAllDirty
    \/ SaveGalaxyState
    \/ LoadGalaxy

SpecStore == InitStore /\ [][NextStore]_vars

(* ------------- a created galaxy, flushed and loaded again -------------- *)

\* PersistenceManager::save_galaxy: a galaxy that is not flagged is not
\* written at all
save_galaxy(db, galaxy) ==
    IF galaxy.needs_persist THEN save_galaxy_state(db, galaxy) ELSE db

\* AppState::create_galaxy on an empty database: the galaxies row with the
\* configuration, Galaxy::new, and save_galaxy of the new galaxy
InitFlush ==
    /\ config = StoreConfig
    /\ \E placed \in (SUBSET GalaxyCoords(config)) \ {{}} :
          systems = [c \in placed |-> System_new(0, config)]
    /\ tick = 0
    /\ dirty_systems = {}
    /\ needs_persist = FALSE
    /\ last = Call("new", 0, NoCoords, "None", "Ok", <<>>)
    /\ base = NoSystem
    /\ stepped = NoSystem
    /\ store = [db |-> save_galaxy(create_galaxy(NoDatabase, to_yaml(config), 0), ThisGalaxy),
                all_dirty |-> FALSE]
    /\ loaded = NotLoaded
    /\ PersistIdle

\* save_all_dirty on the table that holds this galaxy, nothing else running:
\* a flagged galaxy is written and, after Ok, its marks are cleared; a save
\* that fails ends the flush with its error
SaveAllDirty(result) ==
    /\ ~needs_persist => result = "Ok"
    /\ IF needs_persist /\ result = "Ok"
       THEN /\ store' = [db |-> save_galaxy_state(store.db, ThisGalaxy),
                         all_dirty |-> dirty_systems = DOMAIN systems]
            /\ dirty_systems' = {}
            /\ needs_persist' = FALSE
       ELSE UNCHANGED <<store, dirty_systems, needs_persist>>
    /\ last' = Call("save_all_dirty", tick, NoCoords, "None", result, <<>>)
    /\ loaded' = NotLoaded
    /\ UNCHANGED <<config, systems, tick, base, stepped>>
    /\ UNCHANGED <<pvars, cvars>>

\* the calls made on the galaxy while no loaded copy of it is around, at
\* the first ticks callers present
CallsBeforeLoad ==
    LET FlushTicks == {t \in Ticks : t <= TickStep} IN
    /\ loaded.op = "none"
    /\ \/ \E t \in FlushTicks, c \in CallCoords : GetDetails(t, c)
       \/ \E t \in FlushTicks : Stats(t)
       \/ \E t \in FlushTicks, c \in CallCoords, s \in CallStructures : Build(t, c, s)

\* the galaxy is loaded from storage right after a flush
LoadAfterFlush ==
    /\ last.op = "save_all_dirty"
    /\ LoadGalaxy

NextFlush ==
    \/ CallsBeforeLoad
    \/ \E r \in SaveResults : SaveAllDirty(r)
    \/ LoadAfterFlush

SpecFlush == InitFlush /\ [][NextFlush]_vars

(* ------------------- creating and loading galaxies --------------------- *)

InitCreate ==
    /\ config = TestConfig
    /\ systems = [c \in {} |-> NoSystem]
    /\ tick = 0
    /\ dirty_systems = {}
    /\ needs_persist = FALSE
    /\ last = Call("new", 0, NoCoords, "None", "Ok", <<>>)
    /\ base = NoSystem
    /\ stepped = NoSystem
    /\ store = NoStore
    /\ loaded = NotLoaded
    /\ PersistIdle

\* a caller goes on to position pc
Goes(c, pc) == callers' = [callers EXCEPT ![c].pc = pc]

\* a caller's call returns
Returns(c, result) ==
    callers' = [callers EXCEPT ![c].pc = "idle", ![c].result = result]

\* AppState::create_galaxy up to its first await after the lock is given
\* back: the name is looked up under the lock, and a name found is an error
CreateGalaxy(c, g) ==
    /\ callers[c].pc = "idle"
    /\ IF in_memory[g] # NotInMemory
       THEN callers' = [callers EXCEPT ![c] =
                [NoCaller EXCEPT !.op = "create_galaxy", !.galaxy_name = g,
                                 !.result = "Err"]]
       ELSE callers' = [callers EXCEPT ![c] =
                [NoCaller EXCEPT !.op = "create_galaxy", !.galaxy_name = g,
                                 !.pc = "exists_in_db"]]
    /\ UNCHANGED <<in_memory, in_db>>
    /\ UNCHANGED <<gvars, pvars>>

\* galaxy_exists_in_db: a row found sends the call to load_galaxy, no row to
\* Database::create_galaxy, an error (logged) to the creation in memory
GalaxyExistsInDb(c, result) ==
    /\ callers[c].pc = "exists_in_db"
    /\ Goes(c, IF result = "Err" THEN "new"
               ELSE IF in_db[callers[c].galaxy_name] # NoRow THEN "load"
               ELSE "create_row")
    /\ UNCHANGED <<in_memory, in_db>>
    /\ UNCHANGED <<gvars, pvars>>

\* Database::create_galaxy: the insert fails when the name has a row by now
\* or the storage fails; either way the failure is logged only
CreateRow(c, result) ==
    /\ callers[c].pc = "create_row"
    /\ LET g == callers[c].galaxy_name IN
       in_db' = IF result = "Ok" /\ in_db[g] = NoRow
                THEN [in_db EXCEPT ![g] = Row(0, 0)]
                ELSE in_db
    /\ Goes(c, "new")
    /\ UNCHANGED in_memory
    /\ UNCHANGED <<gvars, pvars>>

\* Galaxy::new(config, initial_tick) in create_galaxy
NewGalaxy(c) ==
    /\ callers[c].pc = "new"
    /\ callers' = [callers EXCEPT ![c].pc = "insert_new",
                                  ![c].galaxy = TableGalaxy(0, FALSE)]
    /\ UNCHANGED <<in_memory, in_db>>
    /\ UNCHANGED <<gvars, pvars>>

\* AppState::ensure_galaxy_loaded up to its first await after the lock is
\* given back: a name in the table is Ok
EnsureGalaxyLoaded(c, g) ==
    /\ callers[c].pc = "idle"
    /\ IF in_memory[g] # NotInMemory
       THEN callers' = [callers EXCEPT ![c] =
                [NoCaller EXCEPT !.op = "ensure_galaxy_loaded", !.galaxy_name = g,
                                 !.result = "Ok"]]
       ELSE callers' = [callers EXCEPT ![c] =
                [NoCaller EXCEPT !.op = "ensure_galaxy_loaded", !.galaxy_name = g,
                                 !.pc = "load"]]
    /\ UNCHANGED <<in_memory, in_db>>
    /\ UNCHANGED <<gvars, pvars>>

\* pm.load_galaxy in either call: Ok(Some(galaxy)) with the galaxy of the
\* rows, clean; Ok(None) without a row and Err are returned as errors
LoadFromDb(c, result) ==
    /\ callers[c].pc = "load"
    /\ LET g == callers[c].galaxy_name IN
       IF result = "Ok" /\ in_db[g] # NoRow
       THEN callers' = [callers EXCEPT ![c].pc = "insert_loaded",
                                       ![c].galaxy = TableGalaxy(in_db[g].systems, FALSE)]
       ELSE Returns(c, "Err")
    /\ UNCHANGED <<in_memory, in_db>>
    /\ UNCHANGED <<gvars, pvars>>

\* galaxies.insert(galaxy_name, galaxy) of a loaded galaxy, under the lock
\* taken anew: the name is not looked up again
InsertLoaded(c) ==
    /\ callers[c].pc = "insert_loaded"
    /\ in_memory' = [in_memory EXCEPT ![callers[c].galaxy_name] = callers[c].galaxy]
    /\ Returns(c, "Ok")
    /\ UNCHANGED in_db
    /\ UNCHANGED <<gvars, pvars>>

\* galaxies.insert(galaxy_name, galaxy) of the new galaxy in create_galaxy,
\* under the lock taken anew: the name is not looked up again
InsertNew(c) ==
    /\ callers[c].pc = "insert_new"
    /\ in_memory' = [in_memory EXCEPT ![callers[c].galaxy_name] = callers[c].galaxy]
    /\ Goes(c, "clone")
    /\ UNCHANGED in_db
    /\ UNCHANGED <<gvars, pvars>>

\* create_galaxy clones the galaxy of the table under the lock
CloneCreated(c) ==
    /\ callers[c].pc = "clone"
    /\ callers' = [callers EXCEPT ![c].pc = "save",
                                  ![c].galaxy = in_memory[callers[c].galaxy_name]]
    /\ UNCHANGED <<in_memory, in_db>>
    /\ UNCHANGED <<gvars, pvars>>

\* pm.save_galaxy on the clone: a flagged clone is written, a failure is
\* logged, and create_galaxy returns Ok
SaveCreated(c, result) ==
    /\ callers[c].pc = "save"
    /\ LET g == callers[c].galaxy_name
           galaxy == callers[c].galaxy
       IN in_db' = IF galaxy.needs_persist /\ result = "Ok"
                   THEN [in_db EXCEPT ![g] =
                            save_galaxy_row(IF @ = NoRow THEN Row(0, 0) ELSE @, galaxy)]
                   ELSE in_db
    /\ Returns(c, "Ok")
    /\ UNCHANGED in_memory
    /\ UNCHANGED <<gvars, pvars>>

\* AppState::build_structure on a galaxy of the table, with a build that
\* succeeds: the galaxy moves to the tick of the call and is marked
BuildInMemory(g) ==
    /\ in_memory[g] # NotInMemory
    /\ in_memory[g].tick < MaxBuilds
    /\ in_memory' = [in_memory EXCEPT ![g] = TableGalaxy(@.tick + 1, TRUE)]
    /\ UNCHANGED <<in_db, callers>>
    /\ UNCHANGED <<gvars, pvars>>

NextCreate ==
    \/ \E c \in Callers, g \in Names : CreateGalaxy(c, g)
    \/ \E c \in Callers, result \in SaveResults : GalaxyExistsInDb(c, result)
    \/ \E c \in Callers, result \in SaveResults : CreateRow(c, result)
    \/ \E c \in Callers : NewGalaxy(c)
    \/ \E c \in Callers, g \in Names : EnsureGalaxyLoaded(c, g)
    \/ \E c \in Callers, result \in SaveResults : LoadFromDb(c, result)
    \/ \E c \in Callers : InsertLoaded(c)
    \/ \E c \in Callers : InsertNew(c)
    \/ \E c \in Callers : CloneCreated(c)
    \/ \E c \in Callers, result \in SaveResults : SaveCreated(c, result)
    \/ \E g \in Names : BuildInMemory(g)

SpecCreate == InitCreate /\ [][NextCreate]_vars

(* ------------------------------ claims --------------------------------- *)

CallOps == {"get_details", "build", "stats"}

IsCall(call) == call.op \in CallOps

\* C1: across get_details, build and stats calls with arbitrary ticks the
\* galaxy tick never decreases, and after every call that presents a tick
\* not below the galaxy tick, the galaxy tick is the tick presented
C1_TickMonotonic ==
    [][/\ tick' >= tick
       /\ (IsCall(last') /\ last'.tick >= tick) => tick' = last'.tick]_vars

C1_Witness == last.op = "build" /\ last.result = "Ok" /\ tick > 0 /\ tick = last.tick

\* C2: a call whose tick is below the galaxy tick returns the out-of-order
\* error and leaves the galaxy tick, every system, the dirty set and
\* needs_persist as they were
C2_OutOfOrderRejected ==
    [][(IsCall(last') /\ last'.tick < tick) =>
            /\ last'.result = OutOfOrder
            /\ UNCHANGED <<tick, systems, dirty_systems, needs_persist>>]_vars

C2_Witness ==
    /\ last.result = OutOfOrder
    /\ last.tick < tick
    /\ dirty_systems # {}
    /\ \E c \in DOMAIN systems : systems[c].events # <<>>

Within(a, b) == a.metal <= b.metal /\ a.crew <= b.crew /\ a.water <= b.water

Advanced(c) == systems'[c].current_tick > systems[c].current_tick

\* C3 as claimed: after every advance each of metal, crew and water is at
\* most the storage capacity given by the structure levels
C3_AllWithinStorage ==
    [][\A c \in DOMAIN systems :
          Advanced(c) => Within(systems'[c].resources, get_storage(systems'[c], config))]_vars

\* C3 as amended: after every advance each resource that the structures
\* produce (aggregate production above zero) is at most its storage capacity
C3_ProducedWithinStorage ==
    [][\A c \in DOMAIN systems :
          Advanced(c) =>
             LET sys == systems'[c]
                 production == get_production(sys, config)
                 storage == get_storage(sys, config)
             IN /\ production.metal > 0 => sys.resources.metal <= storage.metal
                /\ production.crew > 0 => sys.resources.crew <= storage.crew
                /\ production.water > 0 => sys.resources.water <= storage.water]_vars

\* a produced resource sits at its cap, below what the system held before
C3_Witness ==
    \E c \in DOMAIN systems :
        /\ systems[c].current_tick > 0
        /\ get_production(systems[c], config).metal > 0
        /\ systems[c].resources.metal = get_storage(systems[c], config).metal
        /\ systems[c].resources.metal < config.systems.resources.metal

\* the gain update_to_tick computes for one resource, before the cap
Gain(c, n, rate) == IF rate > 0 THEN (n \div (3600 \div rate)) - (c \div (3600 \div rate)) ELSE 0

\* storage never clamps on the way from the system b to tick n
NeverClamps(b, n) ==
    LET production == get_production(b, config)
        storage == get_storage(b, config)
    IN /\ production.metal > 0 =>
            b.resources.metal + Gain(b.current_tick, n, production.metal) <= storage.metal
       /\ production.crew > 0 =>
            b.resources.crew + Gain(b.current_tick, n, production.crew) <= storage.crew
       /\ production.water > 0 =>
            b.resources.water + Gain(b.current_tick, n, production.water) <= storage.water

\* C4: with no pending events, constant production and storage that never
\* clamps, advancing in pieces (one tick at a time or in any split) gives
\* the system that a single update_to_tick call from the start gives
C4_SplitInsensitive ==
    (base.events = <<>> /\ NeverClamps(base, stepped.current_tick)) =>
        stepped = update_to_tick(base, stepped.current_tick, config)

C4_Witness ==
    /\ stepped.current_tick >= base.current_tick + 3600
    /\ stepped.resources.metal > base.resources.metal
    /\ stepped.resources.crew > base.resources.crew
    /\ stepped.resources.water > base.resources.water
    /\ NeverClamps(base, stepped.current_tick)

\* C5: every system has at most one pending build event
C5_SingleBuild ==
    \A c \in DOMAIN systems :
        Cardinality({i \in 1..Len(systems[c].events) :
                        systems[c].events[i].action = "Build"}) <= 1

C5_Witness ==
    /\ last.op = "build"
    /\ last.result = "Already building a structure"
    /\ Len(systems[last.coords].events) = 1

\* a build call that reached System::build
ReachedBuild(call) == call.op = "build" /\ call.result \notin {OutOfOrder, Panic}

\* C6 as claimed: while a build is pending, a build call at a tick before
\* its completion fails with 'Already building a structure'; a build call at
\* a tick at or after its completion is not rejected as already building and
\* succeeds when the structure is there and the resources cover the cost
C6_BuildAfterCompletion ==
    [][(ReachedBuild(last') /\ systems[last'.coords].events # <<>>) =>
          LET sys == systems[last'.coords]
              adv == update_to_tick(sys, last'.tick, config)
              s == last'.structure
          IN IF last'.tick < sys.events[1].completion
             THEN last'.result = "Already building a structure"
             ELSE /\ last'.result # "Already building a structure"
                  /\ (/\ structure(adv, s)
                      /\ ge(adv.resources,
                            get_cost(config.systems.structures[s], adv.structures[s] + 1).resources))
                        => last'.result = "Ok"]_vars

StrictlyGreater(a, b) == a.metal > b.metal /\ a.crew > b.crew /\ a.water > b.water

AllEqual(a, b) == a.metal = b.metal /\ a.crew = b.crew /\ a.water = b.water

GreaterOrEqualAll(a, b) == StrictlyGreater(a, b) \/ AllEqual(a, b)

\* the resources held after advancing and the cost of the next level, for a
\* build call that got as far as the affordability check
ReachedAffordability(call) ==
    ReachedBuild(call) /\ call.result \in {"Ok", "Not enough resources"}

HeldAtBuild(call) == update_to_tick(systems[call.coords], call.tick, config).resources

CostAtBuild(call) ==
    get_cost(config.systems.structures[call.structure],
             update_to_tick(systems[call.coords], call.tick, config).structures[call.structure] + 1).resources

\* C7 as claimed: build succeeds only when the resources are strictly
\* greater than the cost in all three components, and fails with 'Not enough
\* resources' otherwise, also when they equal the cost in all three
C7_StrictDominance ==
    [][ReachedAffordability(last') =>
          ((last'.result = "Ok") <=>
              StrictlyGreater(HeldAtBuild(last'), CostAtBuild(last')))]_vars

\* C7 as amended: build succeeds exactly when the resources are strictly
\* greater than the cost in all three components or equal to it in all
\* three, and fails with 'Not enough resources' otherwise
C7_GreaterOrAllEqual ==
    [][ReachedAffordability(last') =>
          ((last'.result = "Ok") <=>
              GreaterOrEqualAll(HeldAtBuild(last'), CostAtBuild(last')))]_vars

\* a build that cost exactly what the system held
C7_Witness ==
    \E c \in DOMAIN systems :
        /\ systems[c].resources = ResourcesDefault
        /\ config.systems.resources # ResourcesDefault
        /\ systems[c].events # <<>>

\* C8: a successful build subtracts the cost of the next level from the
\* resources held after advancing, adds one pending Build event for the
\* structure completing at tick + cost.ticks, returns that event and leaves
\* the structure levels as they are while the event stays pending
C8_BuildEffect ==
    [][/\ (ReachedBuild(last') /\ last'.result = "Ok") =>
             LET c == last'.coords
                 s == last'.structure
                 adv == update_to_tick(systems[c], last'.tick, config)
                 cost == get_cost(config.systems.structures[s], adv.structures[s] + 1)
                 event == [completion |-> last'.tick + cost.ticks,
                           action |-> "Build", structure |-> s]
             IN /\ systems'[c].resources.metal = adv.resources.metal - cost.resources.metal
                /\ systems'[c].resources.crew = adv.resources.crew - cost.resources.crew
                /\ systems'[c].resources.water = adv.resources.water - cost.resources.water
                /\ systems'[c].events = <<event>>
                /\ last'.event = <<event>>
                /\ systems'[c].structures = adv.structures
                /\ systems'[c].current_tick = last'.tick
       /\ \A c \in DOMAIN systems :
             (systems[c].events # <<>> /\ systems'[c].events = systems[c].events)
                => systems'[c].structures = systems[c].structures]_vars

C8_Witness ==
    /\ last.op = "build"
    /\ last.result = "Ok"
    /\ last.event # <<>>
    /\ last.event[1].completion > last.tick
    /\ systems[last.coords].structures[last.structure] >= 1

\* C9: no resource component underflows: metal, crew and water of every
\* system are never negative
C9_NoUnderflow ==
    \A c \in DOMAIN systems :
        /\ systems[c].resources.metal >= 0
        /\ systems[c].resources.crew >= 0
        /\ systems[c].resources.water >= 0

\* a build that left one unit of metal and of crew
C9_Witness ==
    /\ last.op = "build"
    /\ last.result = "Ok"
    /\ systems[last.coords].resources.metal = 1
    /\ systems[last.coords].resources.crew = 1

\* C10 as claimed: after any call that changes a system, the system's
\* coordinate is in the dirty set and needs_persist is true, and both stay
\* so until clear_dirty_flag
C10_ChangedIsDirty ==
    [][/\ IsCall(last') =>
             \A c \in DOMAIN systems :
                systems'[c] # systems[c] => (c \in dirty_systems' /\ needs_persist')
       /\ last'.op # "clear_dirty_flag" =>
             (dirty_systems \subseteq dirty_systems' /\ (needs_persist => needs_persist'))]_vars

\* the mutations of galaxy g made so far are in storage
Stored(g) == database[g].systems >= galaxies[g].tick

\* C11 as claimed: under every interleaving of calls with the worker's
\* batch, no galaxy is left with a mutation that is neither in durable
\* storage nor flagged (the worker clears the flag only if the galaxy was
\* not mutated between its snapshot and the clear)
C11_NoLostMutation ==
    \A g \in Names : ~Stored(g) => galaxies[g].needs_persist

\* C12 as claimed: no save_galaxy_state is in progress while its caller
\* holds the lock on the galaxy table, be it the worker's batch, save_all
\* or shutdown
C12_NoWriteUnderLock ==
    /\ worker.pc = "saving" => lock # "worker"
    /\ manual.pc = "saving" => lock # manual.op

\* C20 as claimed: while a save of galaxy B by another caller is in
\* progress, a call on a different galaxy A can take the table lock and
\* proceed
C20_OtherGalaxyProceeds ==
    \A a \in Names, b \in Names :
        (a # b /\ manual.pc = "saving" /\ manual.galaxy_name = b) => CanLock

\* every mutation of galaxy g is in storage and its flag is clear
Flushed(g) == Stored(g) /\ ~galaxies[g].needs_persist

\* the mutations of the watched galaxy all fell within a window shorter
\* than the coalescing delay, and only the worker saved it
WithinWindow ==
    /\ persistence_config.write_coalescing
    /\ hist.open
    /\ hist.first >= 0

\* C13 as claimed: with coalescing on and delay D, the mutations of one
\* galaxy that all occur within a window shorter than D are, once flushed,
\* written by the worker in exactly one durable write
C13_OneWritePerWindow ==
    (WithinWindow /\ Flushed(Watched)) => hist.writes = 1

\* C13 as amended: with coalescing on and delay D, two drains of the
\* pending set are at least D apart and the worker writes a galaxy at most
\* once per drain, however many mutations it took before the drain
C13_OneWritePerDrain ==
    [][persistence_config.write_coalescing =>
          /\ worker'.last_coalescing_check # worker.last_coalescing_check =>
                worker'.last_coalescing_check - worker.last_coalescing_check
                    >= persistence_config.coalescing_delay
          /\ hist'.since_drain <= 1]_vars

\* two mutations within the window, flushed by one write of the worker
C13_Witness ==
    /\ WithinWindow
    /\ galaxies[Watched].tick = 2
    /\ Flushed(Watched)
    /\ hist.writes = 1
    /\ hist.since_drain = 1

\* the worker's save of the watched galaxy failed and what it held then is
\* not in storage yet
FailedPending == hist.failed >= 0 /\ database[Watched].systems < hist.failed

\* C14: a save of the worker that fails leaves the galaxy's flag set, the
\* flag stays set (so that every later wake collects the galaxy) until what
\* the failed save held is stored, and the first later save of the worker
\* that succeeds stores it
C14_FailedSaveRetried ==
    [][/\ (hist'.failed >= 0 /\ hist'.failed # hist.failed) =>
             (galaxies' = galaxies /\ worker'.pc # "saved")
       /\ (FailedPending /\ galaxies[Watched].needs_persist) =>
             (galaxies'[Watched].needs_persist \/ database'[Watched].systems >= hist.failed)
       /\ FailedPending => galaxies[Watched].needs_persist
       /\ (hist.failed >= 0 /\ hist'.since_drain = hist.since_drain + 1) =>
             database'[Watched].systems >= hist.failed]_vars

\* after a failed save the galaxy, still flagged, is in a later batch
C14_Witness ==
    /\ FailedPending
    /\ galaxies[Watched].needs_persist
    /\ worker.pc = "saving"
    /\ worker.galaxy_name = Watched
    /\ worker.galaxy_to_save.tick >= hist.failed

\* a save of save_all_dirty ended otherwise than by the timeout
ManualSaveEnded == manual.pc = "saving" /\ manual' # manual /\ manual'.result # "Timeout"

\* C15: save_all_dirty returns Err at the first save that fails, with that
\* galaxy and every flagged galaxy not visited yet still flagged; when it
\* returns Ok(n), n is the number of galaxies flagged at the call and no
\* galaxy of the table is flagged afterwards
C15_SaveAllDirty ==
    [][/\ (ManualSaveEnded /\ manual'.saved_count = manual.saved_count) =>
             /\ manual'.pc = "idle"
             /\ manual'.result = "Err"
             /\ galaxies'[manual.galaxy_name].needs_persist
             /\ \A g \in manual.todo : galaxies'[g].needs_persist = galaxies[g].needs_persist
       /\ (manual.pc = "iter" /\ manual'.pc = "idle") =>
             /\ manual'.result = "Ok"
             /\ manual'.saved_count = manual.dirty_at_call
             /\ \A g \in Names : ~galaxies'[g].needs_persist]_vars

\* save_all got Err from the first galaxy; the other one is still flagged
C15_Witness ==
    /\ manual.op = "save_all"
    /\ manual.pc = "idle"
    /\ manual.result = "Err"
    /\ manual.dirty_at_call = 2
    /\ galaxies[manual.galaxy_name].needs_persist
    /\ \E g \in manual.todo : galaxies[g].needs_persist

ShutdownCalled == manual.op = "shutdown" /\ manual.pc # "idle"

ShutdownDone == manual.op = "shutdown" /\ manual.pc = "idle"

\* C17: shutdown sets the shutdown flag, makes one save of the flagged
\* galaxies and always completes with Ok(()), whether the flush succeeds,
\* fails or runs into the timeout; on error or timeout the galaxy whose
\* save did not end and those not visited keep their flags
C17_ShutdownCompletes ==
    /\ [](manual.op = "shutdown" => shutdown_signal)
    /\ [](ShutdownDone => manual.returned = "Ok")
    /\ [][(manual.op = "shutdown" /\ manual.pc = "saving" /\ manual'.pc = "idle") =>
             /\ manual'.result \in {"Err", "Timeout"}
             /\ galaxies'[manual.galaxy_name].needs_persist
             /\ \A g \in manual.todo : galaxies'[g].needs_persist = galaxies[g].needs_persist]_vars
    /\ ShutdownCalled ~> ShutdownDone

\* shutdown returned after the timeout cut its flush short
C17_Witness ==
    /\ ShutdownDone
    /\ manual.result = "Timeout"
    /\ manual.returned = "Ok"
    /\ manual.saved_count = 1
    /\ galaxies[manual.galaxy_name].needs_persist

\* the galaxy load_galaxy returned is the galaxy in memory
LoadedBack ==
    /\ loaded.ok
    /\ loaded.tick = tick
    /\ DOMAIN loaded.systems = DOMAIN systems
    /\ \A c \in DOMAIN systems :
          /\ loaded.systems[c].current_tick = systems[c].current_tick
          /\ loaded.systems[c].resources = systems[c].resources
          /\ loaded.systems[c].structures = systems[c].structures
          /\ loaded.systems[c].events = systems[c].events

\* the galaxy was saved with every system marked dirty, then loaded
SavedAllThenLoaded == store.all_dirty /\ loaded.op = "load_galaxy"

\* C16 as claimed: saving a galaxy in which every system is marked dirty
\* and then loading it by name gives back the galaxy tick and, at every
\* coordinate, the system's own current_tick, resources, structure levels
\* and pending events
C16_RoundTrip == SavedAllThenLoaded => LoadedBack

\* the round trip of a galaxy whose galaxies row was made by create_galaxy,
\* with the configuration, before the save
RoundTripOfCreated ==
    (SavedAllThenLoaded /\ store.db.galaxy.config_file # EmptyConfigFile) => LoadedBack

\* a system behind the galaxy tick and one with a pending build came back
RoundTripReached ==
    /\ SavedAllThenLoaded
    /\ LoadedBack
    /\ \E c \in DOMAIN systems : loaded.systems[c].current_tick = 500
    /\ \E c \in DOMAIN systems : loaded.systems[c].events # <<>>

\* C18 as claimed: no get_details, build or stats call panics, whatever the
\* tick, coordinate and structure kind: each returns Ok or an error, also
\* for a coordinate at which the galaxy has no system
C18_NoPanic == last.result # Panic

\* the sum over the structures of level * (level + 1) / 2
RECURSIVE Triangular(_, _)
Triangular(S, lv) ==
    IF S = {} THEN 0
    ELSE LET s == CHOOSE x \in S : TRUE IN
         ((lv[s] * (lv[s] + 1)) \div 2) + Triangular(S \ {s}, lv)

\* a system with one structure, at level 4
OnlyLevelFour ==
    [current_tick |-> 0, events |-> <<>>, resources |-> ResourcesDefault,
     structures |-> [s \in {"Colony"} |-> 4]]

\* C19: score is the sum over the structures of level * (level + 1) / 2 at
\* the levels the system has after advancing to the tick of the call; one
\* structure at level 4 and no other gives 10
C19_Score ==
    [][/\ last'.op = "score" =>
             LET adv == update_to_tick(systems[last'.coords], last'.tick, config)
             IN /\ last'.result = Triangular(DOMAIN adv.structures, adv.structures)
                /\ systems'[last'.coords] = adv
       /\ score(OnlyLevelFour, 0, config) = 10]_vars

\* a build completed on the way to the tick of the call and counted: the
\* colony at level 2 and the mine, now at level 4, give 3 + 10
C19_Witness ==
    /\ last.op = "score"
    /\ last.result = 13
    /\ systems[last.coords].events = <<>>
    /\ systems[last.coords].structures["AsteroidMine"] = 4

\* C21 as claimed: a name in the table is never given another galaxy by
\* create_galaxy or ensure_galaxy_loaded. create_galaxy for a name in the
\* table returns an error and leaves the table as it is, and under every
\* interleaving of calls for one name the galaxy in the table stays there
\* with every mutation it took
C21_NeverReplaced ==
    [][/\ \A c \in Callers :
             (callers[c].pc = "idle" /\ callers'[c].op = "create_galaxy"
              /\ callers'[c] # callers[c] /\ in_memory[callers'[c].galaxy_name] # NotInMemory)
                => (callers'[c].result = "Err" /\ callers'[c].pc = "idle"
                    /\ in_memory' = in_memory)
       /\ \A g \in Names :
             in_memory[g] # NotInMemory =>
                /\ in_memory'[g] # NotInMemory
                /\ in_memory'[g].tick >= in_memory[g].tick]_vars

\* one resource after an advance from tick c to tick n: the gain of Gain
\* added and capped when the rate is above zero, as before otherwise
After(have, c, n, rate, cap) ==
    IF rate = 0 THEN have
    ELSE IF have + Gain(c, n, rate) <= cap THEN have + Gain(c, n, rate) ELSE cap

\* the system of the test configuration at tick 0: metal 10, crew 3,
\* water 5, producing 2 metal and 3 water per hour
AtZero == System_new(0, TestConfig)

\* C22: an advance from tick c to tick n adds, for each resource by itself,
\* floor(n / I) - floor(c / I) units before the cap, I = floor(3600 / P), when
\* its rate P is above zero and leaves it alone when P = 0; from 10/3/5 at
\* tick 0, tick 1200 gives water 6 with metal still 10, tick 1800 metal 11
C22_UnitsGained ==
    [][/\ stepped'.current_tick > stepped.current_tick =>
             LET c == stepped.current_tick
                 n == stepped'.current_tick
                 production == get_production(stepped', config)
                 storage == get_storage(stepped', config)
             IN /\ stepped'.resources.metal =
                      After(stepped.resources.metal, c, n, production.metal, storage.metal)
                /\ stepped'.resources.crew =
                      After(stepped.resources.crew, c, n, production.crew, storage.crew)
                /\ stepped'.resources.water =
                      After(stepped.resources.water, c, n, production.water, storage.water)
       /\ update_to_tick(AtZero, 1200, TestConfig).resources.water = 6
       /\ update_to_tick(AtZero, 1200, TestConfig).resources.metal = 10
       /\ update_to_tick(AtZero, 1800, TestConfig).resources.metal = 11]_vars

\* the system of the example, advanced from tick 0 to tick 1800 in steps
C22_Witness ==
    /\ base = AtZero
    /\ stepped.current_tick = 1800
    /\ stepped.resources.metal = 11
    /\ stepped.resources.water = 6
    /\ stepped.resources.crew = 3

\* C23 as claimed: a rate is the number of units produced per 3600 ticks:
\* for every rate P in 1..3600, with storage that never clamps and no
\* pending event, an advance from a multiple of 3600 to the next one adds
\* exactly P units
C23_RatePerHour ==
    [][(last'.op = "update_to_tick" /\ last'.result = "Ok") =>
          stepped'.resources.metal =
              stepped.resources.metal + get_production(stepped, config).metal]_vars

\* C24: update_to_tick(new_tick) with new_tick <= current_tick changes
\* nothing: current_tick, resources, structure levels and pending events of
\* the system stay as they are
C24_NoOpBackwards ==
    [][(last'.op = "score" /\ last'.tick <= systems[last'.coords].current_tick) =>
          /\ systems'[last'.coords].current_tick = systems[last'.coords].current_tick
          /\ systems'[last'.coords].resources = systems[last'.coords].resources
          /\ systems'[last'.coords].structures = systems[last'.coords].structures
          /\ systems'[last'.coords].events = systems[last'.coords].events]_vars

\* a call for tick 4400 on a system that is at tick 5000 already
C24_Witness ==
    /\ last.op = "score"
    /\ last.tick = 4400
    /\ systems[last.coords].current_tick = 5000
    /\ systems[last.coords].structures["AsteroidMine"] = 1

\* the call advances the system at c: get_details addressed to c, or stats
Advances(call, c) ==
    /\ call.result = "Ok"
    /\ \/ call.op = "stats"
       \/ call.op = "get_details" /\ call.coords = c

\* the events of evs that complete by tick n and name structure s
DueFor(evs, n, s) ==
    {i \in 1..Len(evs) : evs[i].completion <= n /\ evs[i].structure = s}

\* C25: after update_to_tick(n) with n > current_tick every pending event
\* with completion <= n is gone and has raised the level of its structure by
\* exactly one, every event with completion > n is pending as before, and
\* current_tick is n
C25_DueEventsApplied ==
    [][\A c \in DOMAIN systems :
          (Advances(last', c) /\ last'.tick > systems[c].current_tick) =>
             LET n == last'.tick
                 old == systems[c]
                 new == systems'[c]
                 Later(e) == e.completion > n
             IN /\ new.current_tick = n
                /\ new.events = SelectSeq(old.events, Later)
                /\ \A s \in DOMAIN old.structures :
                      new.structures[s] =
                          old.structures[s] + Cardinality(DueFor(old.events, n, s))]_vars

\* a get_details at the completion tick of a build found the mine, built
\* from level 0 at tick 0, at level 1 and nothing pending
C25_Witness ==
    /\ last.op = "get_details"
    /\ last.result = "Ok"
    /\ last.tick = 3600
    /\ systems[last.coords].current_tick = 3600
    /\ systems[last.coords].events = <<>>
    /\ config.systems.structures["AsteroidMine"].starting_level = 0
    /\ config.systems.structures["AsteroidMine"].cost.time = 3600
    /\ systems[last.coords].structures["AsteroidMine"] = 1

\* the errors of System::build
BuildErrors ==
    {"Already building a structure", "Structure not found", "Not enough resources"}

\* C26: a build that fails deducts nothing and enqueues nothing: resources,
\* structure levels and pending events are afterwards those that
\* update_to_tick(tick) alone gives
C26_FailedBuildNoEffect ==
    [][(last'.op = "build" /\ last'.result \in BuildErrors) =>
          LET adv == update_to_tick(systems[last'.coords], last'.tick, config)
              new == systems'[last'.coords]
          IN /\ new.resources = adv.resources
             /\ new.structures = adv.structures
             /\ new.events = adv.events
             /\ last'.event = <<>>]_vars

\* a build that could not be paid, on a system that holds nothing pending
\* and was advanced by the call
C26_Witness ==
    /\ last.op = "build"
    /\ last.result = "Not enough resources"
    /\ last.tick = 1800
    /\ systems[last.coords].current_tick = 1800
    /\ systems[last.coords].events = <<>>
    /\ systems[last.coords].resources.metal = 11

\* some pending event names a structure
BuildPending(sys) == \E i \in 1..Len(sys.events) : sys.events[i].structure # "None"

\* C27: build checks in a fixed order: with a build pending it fails with
\* 'Already building a structure', also for a structure that is absent or
\* too dear; otherwise a structure that is not on the system gives
\* 'Structure not found'; only then the resources are compared
C27_CheckOrder ==
    [][ReachedBuild(last') =>
          LET adv == update_to_tick(systems[last'.coords], last'.tick, config)
              s == last'.structure
          IN /\ BuildPending(adv) => last'.result = "Already building a structure"
             /\ (~BuildPending(adv) /\ s \notin DOMAIN adv.structures) =>
                   last'.result = "Structure not found"
             /\ (~BuildPending(adv) /\ s \in DOMAIN adv.structures) =>
                   last'.result \in {"Ok", "Not enough resources"}]_vars

\* a build of a structure that is not on the system, refused for the build
\* that is pending
C27_Witness ==
    /\ last.op = "build"
    /\ last.result = "Already building a structure"
    /\ last.structure \notin DOMAIN systems[last.coords].structures
    /\ systems[last.coords].events # <<>>

\* the flagged galaxies of the table
DirtyGalaxies == {g \in Names : galaxies[g].needs_persist}

\* the worker wakes at its save interval and goes on past the checks of the
\* shutdown flag and of the table
Wakes ==
    /\ worker.pc = "select"
    /\ worker'.pc # "done"
    /\ worker' # worker

\* C28: with coalescing on, a wake adds every flagged galaxy to the pending
\* set and starts no write unless at least coalescing_delay passed since
\* the drain before; when it has, the whole pending set is drained into one
\* batch and a save is attempted for every name of the batch
C28_CoalescedWake ==
    [][persistence_config.write_coalescing =>
          /\ Wakes =>
                LET pending == worker.coalescing_tracker \cup DirtyGalaxies IN
                IF now' - worker.last_coalescing_check < persistence_config.coalescing_delay
                THEN /\ worker'.coalescing_tracker = pending
                     /\ worker'.pc = "select"
                     /\ worker'.last_coalescing_check = worker.last_coalescing_check
                ELSE /\ worker'.coalescing_tracker = {}
                     /\ worker'.galaxy_names = pending
                     /\ worker'.pc = IF pending = {} THEN "select" ELSE "batch"
                     /\ worker'.last_coalescing_check = now'
          /\ (database' # database /\ manual' = manual) => worker.pc = "saving"
          /\ (worker.pc = "batch" /\ worker' # worker) =>
                /\ worker'.pc = "saving"
                /\ worker'.galaxy_name \in worker.galaxy_names
                /\ worker'.galaxy_names = worker.galaxy_names \ {worker'.galaxy_name}
          /\ (worker.pc \in {"saving", "saved"} /\ worker'.pc = "select") =>
                worker.galaxy_names = {}]_vars

\* both galaxies were pending and are drained into one batch
C28_Witness ==
    /\ persistence_config.write_coalescing
    /\ worker.pc = "batch"
    /\ worker.galaxy_names = Names
    /\ worker.coalescing_tracker = {}
    /\ worker.last_coalescing_check = now
    /\ now >= 2 * persistence_config.coalescing_delay

\* C29: with coalescing off, every wake makes a batch of the galaxies
\* flagged when the names are collected, a save is attempted for each of
\* them, and after each save that succeeds the flag of that galaxy is
\* cleared before the worker goes on, within the same wake
C29_ImmediateWake ==
    [][~persistence_config.write_coalescing =>
          /\ Wakes =>
                /\ worker'.galaxy_names = DirtyGalaxies
                /\ worker'.pc = IF DirtyGalaxies = {} THEN "select" ELSE "batch"
          /\ (worker.pc = "batch" /\ worker' # worker) =>
                /\ worker'.pc = "saving"
                /\ worker'.galaxy_name \in worker.galaxy_names
                /\ worker'.galaxy_names = worker.galaxy_names \ {worker'.galaxy_name}
                /\ worker'.galaxy_to_save = galaxies[worker'.galaxy_name]
          /\ (worker.pc = "saving" /\ worker' # worker) =>
                \/ /\ worker'.pc = "saved"
                   /\ database'[worker.galaxy_name].tick = worker.galaxy_to_save.tick
                \/ /\ worker'.pc = IF worker.galaxy_names = {} THEN "select" ELSE "batch"
                   /\ database' = database
          /\ (worker.pc = "saved" /\ worker' # worker) =>
                /\ ~galaxies'[worker.galaxy_name].needs_persist
                /\ worker'.pc = IF worker.galaxy_names = {} THEN "select" ELSE "batch"]_vars

\* the second galaxy of one wake's batch is saved, the flag of the first
\* one is clear already
C29_Witness ==
    /\ ~persistence_config.write_coalescing
    /\ worker.pc = "saved"
    /\ worker.galaxy_names = {}
    /\ \E g \in Names \ {worker.galaxy_name} :
          ~galaxies[g].needs_persist /\ database[g].systems = galaxies[g].tick
                                     /\ galaxies[g].tick > 0

\* C30: once the shutdown flag is set the worker starts no batch at a later
\* wake, and its loop exits in the end, after the batch in progress if
\* there is one
C30_WorkerExits ==
    /\ [][(shutdown_signal /\ worker.pc = "select") => worker'.pc \in {"select", "done"}]_vars
    /\ [][worker.pc = "done" => worker' = worker]_vars
    /\ shutdown_signal ~> (worker.pc = "done")

\* the worker has left after shutdown set the flag; what the watched
\* galaxy took is in storage by the worker's last batch, not by the flush
\* of shutdown, which saved nothing
C30_Witness ==
    /\ shutdown_signal
    /\ worker.pc = "done"
    /\ manual.op = "shutdown"
    /\ manual.pc = "idle"
    /\ manual.saved_count = 0
    /\ hist.since_drain = 1
    /\ galaxies[Watched].tick > 0
    /\ database[Watched].systems = galaxies[Watched].tick

\* C31 as claimed: once the application has dropped the table the worker
\* makes no further durable write (at most the save that was in progress at
\* the drop ends: no galaxy is cloned and saved afterwards), and its next
\* save-interval wake ends it
C31_NoWriteAfterDrop ==
    /\ [][(~table_alive /\ worker.pc = "batch") => worker'.pc # "saving"]_vars
    /\ [][(~table_alive /\ worker.pc = "select" /\ worker' # worker) =>
             worker'.pc = "done"]_vars

\* C32: in every state reached through build, get_details and stats, every
\* pending event names a structure kind that is on its system, so no due
\* event reaches the unwrap of a missing structure, at whatever tick it
\* is applied
C32_EventsNamePresent ==
    \A c \in DOMAIN systems :
        \A i \in 1..Len(systems[c].events) :
            /\ systems[c].events[i].structure \in DOMAIN systems[c].structures
            /\ \A t \in Ticks : ~event_callback_panics(systems[c], t, systems[c].events[i])

\* a build is pending on a system on which an earlier build was applied
C32_Witness ==
    \E c \in DOMAIN systems :
        /\ systems[c].events # <<>>
        /\ last.op = "build"
        /\ last.result = "Ok"
        /\ \E s \in DOMAIN systems[c].structures :
              systems[c].structures[s] > config.systems.structures[s].starting_level

\* C33: get_details and build addressed to coordinate c leave every other
\* system as it was (its current tick, resources, structure levels and
\* pending events); apart from the system at c only the galaxy tick and the
\* dirty mark of c may change
C33_OnlyAddressed ==
    [][last'.op \in {"get_details", "build"} =>
          /\ DOMAIN systems' = DOMAIN systems
          /\ \A d \in DOMAIN systems : d # last'.coords => systems'[d] = systems[d]
          /\ IF last'.coords = NoCoords
             THEN dirty_systems' = dirty_systems
             ELSE dirty_systems' \subseteq dirty_systems \cup {last'.coords}
          /\ config' = config]_vars

\* a build on one system moved it to the galaxy tick, the other system of
\* the galaxy still is at an earlier tick and carries no dirty mark
C33_Witness ==
    /\ last.op = "build"
    /\ last.result = "Ok"
    /\ tick > 0
    /\ systems[last.coords].current_tick = tick
    /\ \E d \in DOMAIN systems :
          /\ d # last.coords
          /\ systems[d].current_tick < tick
          /\ d \notin dirty_systems

\* C34 as claimed: for a system with a build pending that completes inside
\* the interval, advancing in pieces gives the resources and structure
\* levels that one update_to_tick call over the whole interval gives
C34_SplitInsensitiveWithEvent ==
    LET whole == update_to_tick(base, stepped.current_tick, config)
    IN /\ stepped.resources = whole.resources
       /\ stepped.structures = whole.structures

\* C35 as claimed: under every interleaving of the worker's batch with
\* save_all, shutdown and mutating calls, successive committed writes of a
\* galaxy carry non-decreasing galaxy ticks: no older snapshot is written
\* over a newer one
C35_NoRegression ==
    [][\A g \in Names :
          /\ database'[g].tick >= database[g].tick
          /\ database'[g].systems >= database[g].systems]_vars

\* C36 as claimed: after a flush of the dirty galaxies that succeeds, with
\* no call in between, loading the galaxy gives the coordinates and the
\* state of every system that the galaxy in memory has, the systems that no
\* call ever addressed included
C36_FlushThenLoad ==
    (last.op = "save_all_dirty" /\ last.result = "Ok" /\ loaded.op = "load_galaxy") =>
        LoadedBack

\* C37 as claimed: in every state reached through Galaxy::new,
\* get_details, build, stats and create_user_system the current tick of
\* every system is at most the galaxy tick, and no system's current tick
\* ever decreases
C37_SystemTickWithinGalaxyTick ==
    /\ [](\A c \in DOMAIN systems : systems[c].current_tick <= tick)
    /\ [][\A c \in DOMAIN systems :
             systems'[c].current_tick >= systems[c].current_tick]_vars

\* C38 as claimed: after every operation on a system no pending event is
\* overdue: the completion tick of every pending event is strictly greater
\* than the current tick of its system, whatever the duration of the build,
\* zero included
C38_NoOverdueEvent ==
    \A c \in DOMAIN systems :
        \A i \in 1..Len(systems[c].events) :
            systems[c].events[i].completion > systems[c].current_tick

\* C39 as claimed: update_to_tick never divides by zero: for every
\* aggregate rate P >= 1, rates above 3600 included, the production interval
\* 3600 / P it divides by is at least 1 and the advance completes
C39_NeverDividesByZero ==
    [][last'.op = "update_to_tick" =>
          /\ LET production == get_production(stepped, config) IN
             \A rate \in {production.metal, production.crew, production.water} :
                 rate >= 1 => production_interval(rate) >= 1
          /\ last'.result # Panic]_vars

\* C40 as claimed: in both coalescing modes and under every interleaving
\* with manual saves, the worker commits no write of a galaxy whose dirty
\* flag was clear when the worker took its snapshot of it
C40_WorkerSkipsClean ==
    [][(worker.pc = "saving" /\ worker'.pc = "saved") =>
          worker.galaxy_to_save.needs_persist]_vars

====
